---- MODULE Spec2Model ----
(***************************************************************************)
(* GenAI Studies Explorer: the state store (modules/state.js), the         *)
(* bootstrap coordinator (modules/bootstrap.js), the application entry     *)
(* point (js/main.js) and the search engine with its filters               *)
(* (modules/search-engine.js), as state machines.                          *)
(*                                                                         *)
(* JavaScript objects and arrays have identity: two variables may name the *)
(* same object.  The model keeps a heap (objs, arrs) of study objects and  *)
(* arrays addressed by reference, so that a copy, a shallow copy and an    *)
(* alias are three different things.  Strings are sequences of characters. *)
(***************************************************************************)
EXTENDS Integers, Sequences, FiniteSets, TLC

\* ------------------------------------------------------------------ bounds
\* the longest list of studies a caller passes to setStudies
MaxLen == 1
\* the number of listener registrations in total
MaxListeners == 1

\* arrays alive at once: the canonical one, the caller's, one being built
ArrIds == 1 .. 3
ObjIds == 1 .. (3 * MaxLen)

\* ------------------------------------------------------------------ values
\* A JavaScript value: its type, its text when it is a string (a number
\* carries the text String() gives it, a boolean "true" or "false") and its
\* elements when it is an array.  A string is a sequence of characters.
Undefined == [t |-> "undefined", s |-> <<>>, a |-> <<>>]
Null == [t |-> "null", s |-> <<>>, a |-> <<>>]
Str(x) == [t |-> "string", s |-> x, a |-> <<>>]
Num(x) == [t |-> "number", s |-> x, a |-> <<>>]
Arr(q) == [t |-> "array", s |-> <<>>, a |-> q]
Bool(x) == [t |-> "boolean", s |-> x, a |-> <<>>]

\* if (v), !v, v || w
Truthy(v) ==
    CASE v.t \in { "undefined", "null" } -> FALSE
      [] v.t = "string" -> v.s # <<>>
      [] v.t = "number" -> v.s \notin { <<"0">>, <<"NaN">> }
      [] v.t = "boolean" -> v.s = <<"true">>
      [] OTHER -> TRUE

OrElse(v, w) == IF Truthy(v) THEN v ELSE w

Range(q) == { q[i] : i \in 1 .. Len(q) }

\* String.prototype.trim, for the one white-space character " "
RECURSIVE TrimLeft(_)
TrimLeft(x) ==
    IF x # <<>> /\ Head(x) = " " THEN TrimLeft(Tail(x)) ELSE x

RECURSIVE TrimRight(_)
TrimRight(x) ==
    IF x # <<>> /\ x[Len(x)] = " " THEN TrimRight(SubSeq(x, 1, Len(x) - 1))
    ELSE x

trim(x) == TrimRight(TrimLeft(x))

\* String.prototype.split(sep) for a separator of one character: the pieces
\* between the separators, the empty ones too
RECURSIVE SplitFrom(_, _, _, _)
SplitFrom(x, sep, piece, acc) ==
    IF x = <<>> THEN Append(acc, piece)
    ELSE IF Head(x) = sep THEN SplitFrom(Tail(x), sep, <<>>, Append(acc, piece))
    ELSE SplitFrom(Tail(x), sep, Append(piece, Head(x)), acc)

split(x, sep) == SplitFrom(x, sep, <<>>, <<>>)

\* strings.map(x => x.trim()), and the texts of a list as string values
TrimEach(q) == [i \in 1 .. Len(q) |-> Str(trim(q[i].s))]

Strs(q) == [i \in 1 .. Len(q) |-> Str(q[i])]

\* list.filter(x => x && typeof x === 'string')
NonEmptyStrings(q) == SelectSeq(q, LAMBDA x : Truthy(x) /\ x.t = "string")

Untitled == <<"Untitled Study">>
UnknownOrganization == <<"Unknown Organization">>
Uncategorized == <<"Uncategorized">>

\* the metadata object of a study
MkMetadata(subjects, year, authors) ==
    [t |-> "object", subjects |-> subjects, year |-> year, authors |-> authors]

\* a value in the place of a metadata object
NoMetadata(v) ==
    [t |-> v.t, subjects |-> Undefined, year |-> Undefined,
     authors |-> Undefined]

\* an entry of a list of studies: an object with the fields of a study (a
\* field the object lacks is undefined), or a value that is no object
MkRecord(id, title, organization, categories, metadata) ==
    [t |-> "object", id |-> id, title |-> title, url |-> Str(<<"#">>),
     organization |-> organization, date |-> Str(<<>>),
     description |-> Str(<<>>), categories |-> categories,
     metadata |-> metadata]

NotARecord(v) ==
    [t |-> v.t, s |-> v.s, id |-> Undefined, title |-> Undefined, url |-> Undefined,
     organization |-> Undefined, date |-> Undefined,
     description |-> Undefined, categories |-> Undefined,
     metadata |-> NoMetadata(Undefined)]

\* a study object in the shape the normalizers give it
MkStudy(id, title, cats) ==
    MkRecord(Str(id), Str(title), Str(<<"O">>), Arr(Strs(cats)),
             MkMetadata(Arr(<<>>), Str(<<>>), Arr(<<>>)))

\* ------------------------------------------------------------------ normalizer
\* normalizeStudiesData leaving an empty list of categories as it is
NormalizedCategoriesNoDefault(c) ==
    IF ~Truthy(c) THEN Arr(<<>>)
    ELSE IF c.t = "array"
    THEN Arr(TrimEach(NonEmptyStrings(c.a)))
    ELSE IF c.t = "string" THEN Arr(<< Str(trim(c.s)) >>)
    ELSE Arr(<<>>)

\* categories as normalizeStudiesData sets them
NormalizedCategories(c) ==
    LET cats ==
            IF ~Truthy(c) THEN <<>>
            ELSE IF c.t = "array"
            THEN TrimEach(NonEmptyStrings(c.a))
            ELSE IF c.t = "string" THEN << Str(trim(c.s)) >>
            ELSE <<>>
    IN  IF Len(cats) = 0 THEN Arr(<< Str(Uncategorized) >>) ELSE Arr(cats)

\* metadata.subjects as normalizeStudiesData sets it, from the value the
\* spread of the source metadata over the defaults left there
NormalizedSubjects(v) ==
    IF ~Truthy(v) THEN v
    ELSE IF v.t = "array"
    THEN Arr(TrimEach(NonEmptyStrings(v.a)))
    ELSE IF v.t = "string" THEN Arr(<< Str(trim(v.s)) >>)
    ELSE Arr(<<>>)

\* { subjects: [], year: '', authors: [], ...metadata }
SpreadMetadata(m) ==
    IF m.t # "object" THEN MkMetadata(Arr(<<>>), Str(<<>>), Arr(<<>>))
    ELSE MkMetadata(IF m.subjects.t = "undefined" THEN Arr(<<>>) ELSE m.subjects,
                    IF m.year.t = "undefined" THEN Str(<<>>) ELSE m.year,
                    IF m.authors.t = "undefined" THEN Arr(<<>>) ELSE m.authors)

StringOr(v, default) == IF v.t = "string" THEN v ELSE Str(default)

\* the body of the map of normalizeStudiesData for one entry; r is what
\* Math.random().toString(36).substring(2, 9) gives this time
NormalizeStudy(study, r) ==
    LET spread == SpreadMetadata(study.metadata)
    IN  [t |-> "object",
         id |-> IF study.id.t = "string" THEN study.id
                ELSE IF study.id.t = "number" THEN Str(study.id.s)
                ELSE Str(<< "generated-", r >>),
         title |-> StringOr(study.title, Untitled),
         url |-> StringOr(study.url, <<"#">>),
         organization |-> StringOr(study.organization, UnknownOrganization),
         date |-> StringOr(study.date, <<>>),
         description |-> StringOr(study.description, <<>>),
         categories |-> NormalizedCategories(study.categories),
         metadata |-> [spread EXCEPT !.subjects = NormalizedSubjects(@)]]

\* normalizeStudiesData(studies): studies is any value, r the random text
normalizeStudiesData(studies, r) ==
    IF ~Truthy(studies) \/ studies.t # "array" THEN Arr(<<>>)
    ELSE LET kept == SelectSeq(studies.a,
                               LAMBDA study : study.t \in { "object", "array" })
         IN  Arr([i \in 1 .. Len(kept) |-> NormalizeStudy(kept[i], r)])

\* if (!study), for an entry of a list of studies
EntryTruthy(e) == IF e.t \in { "object", "array" } THEN TRUE ELSE Truthy(e)

\* String(v), for a value that is no array
String(v) ==
    IF v.t \in { "string", "number", "boolean" } THEN Str(v.s)
    ELSE Str(<<"[object Object]">>)

\* categories as normalizeStudies of the data loader sets them
LoaderCategories(c) ==
    LET cats ==
            IF ~Truthy(c) THEN <<>>
            ELSE IF c.t = "array"
            THEN TrimEach(NonEmptyStrings(c.a))
            ELSE IF c.t = "string"
            THEN IF "|" \in Range(c.s)
                 THEN SelectSeq(TrimEach(Strs(split(c.s, "|"))), Truthy)
                 ELSE IF trim(c.s) # <<>> THEN << Str(trim(c.s)) >>
                 ELSE <<>>
            ELSE <<>>
    IN  IF Len(cats) = 0 THEN Arr(<< Str(Uncategorized) >>) ELSE Arr(cats)

\* metadata as normalizeStudies of the data loader sets it.  A metadata of
\* type "json" is a string holding the JSON text of the object with these
\* fields; any other string is no JSON text, or the text of no object, and
\* ends as { subjects: [] } either by the inner catch or by the outer one.
LoaderMetadata(m) ==
    LET copied ==
            IF m.t \in { "object", "json" }
            THEN MkMetadata(m.subjects, m.year, m.authors)
            ELSE MkMetadata(Arr(<<>>), Undefined, Undefined)
    IN  [copied EXCEPT !.subjects =
                           IF ~Truthy(@) THEN Arr(<<>>)
                           ELSE IF @.t # "array" THEN Arr(<< String(@) >>)
                           ELSE @]

\* the body of the map of normalizeStudies for the entry at index (from 0);
\* the entries carry no key_findings
LoaderStudy(study, index) ==
    [t |-> "object",
     id |-> OrElse(study.id, Str(<< "study-", ToString(index) >>)),
     title |-> OrElse(study.title, Str(Untitled)),
     url |-> OrElse(study.url, Str(<<"#">>)),
     organization |-> OrElse(study.organization, Str(UnknownOrganization)),
     date |-> OrElse(study.date, Str(<<>>)),
     description |-> OrElse(study.description, Str(<<>>)),
     categories |-> LoaderCategories(study.categories),
     metadata |-> LoaderMetadata(study.metadata)]

\* normalizeStudies(studies) of the data loader: studies is any value
normalizeStudies(studies) ==
    IF ~Truthy(studies) \/ studies.t # "array" THEN Arr(<<>>)
    ELSE LET mapped == [i \in 1 .. Len(studies.a) |->
                           IF ~EntryTruthy(studies.a[i]) THEN Null
                           ELSE LoaderStudy(studies.a[i], i - 1)]
         IN  Arr(SelectSeq(mapped, LAMBDA study : study # Null))

\* the study objects callers put into the lists they pass to setStudies
InputStudies ==
    { MkStudy(<<"1">>, <<>>, << <<"W">> >>),
      MkStudy(<<"2">>, <<"A">>, << <<"W">> >>) }

RECURSIVE SeqsUpTo(_, _)
SeqsUpTo(S, n) ==
    IF n = 0 THEN { <<>> }
    ELSE LET shorter == SeqsUpTo(S, n - 1)
         IN  shorter \cup { Append(q, x) : q \in shorter, x \in S }

\* the number of callbacks the view registers in total
MaxCallbacks == 2

\* the registrations of the view: callbacks on the events of the filters and
\* of the view mode
ViewRegistrations ==
    { << "filter-changed", "throw" >>, << "filter-changed", "capture" >>,
      << "filter-changed", "reenter" >>, << "state-changed", "capture" >>,
      << "view-mode-changed", "throw" >> }

\* the registrations tried on the events of a change of the query
ListenerRegistrations ==
    { << "filter-changed", "removeSelf" >>, << "filter-changed", "capture" >>,
      << "filter-changed", "throw" >>, << "state-changed", "capture" >> }

\* the registrations of callbacks that look at the store
ObserveRegistrations ==
    { << "studies-loaded", "capture" >>, << "filter-changed", "capture" >>,
      << "state-changed", "capture" >>, << "error", "capture" >> }

\* what the view passes for a category, for a query and for a view mode
CategoryInputs == { Str(<<"A">>), Str(<<"B">>), Str(<<>>), Num(<<"5">>) }

QueryInputs == { Str(<<" ", "q", " ">>), Str(<<" ">>), Num(<<"5">>) }

ModeInputs == { "card", "list", "grid" }

SubjectInputs == { Str(<<"math">>), Str(<<>>), Null }

\* what a caller may pass that is not an array
NonArrays == { "string", "null", "undefined", "object" }

Events == { "state-changed", "studies-loaded", "filter-changed", "error",
            "view-mode-changed" }
\* what a registered callback does: throw, keep the payload it is given,
\* call AppState.setViewMode('list'), or remove itself from the event
Callbacks == { "throw", "capture", "reenter", "removeSelf" }
\* the registrations tried: a callback on an event that is dispatched to it
Registrations ==
    { << "studies-loaded", "capture" >>, << "studies-loaded", "throw" >>,
      << "state-changed", "throw" >>, << "error", "throw" >> }

NoError == "null"
InvalidStudiesData == "Error: Invalid studies data"
CallbackError == "Error: thrown by a listener"

VARIABLES
    objs,          \* heap: reference -> study object
    arrs,          \* heap: reference -> array of references to study objects
    _studies,      \* AppState._studies, a reference to an array
    _initialized,  \* AppState._initialized
    _loading,      \* AppState._loading
    _error,        \* AppState._error
    _categoryFilters,  \* AppState._categoryFilters, in the order of adding
    _subjectFilters,   \* AppState._subjectFilters
    _searchQuery,  \* AppState._searchQuery
    _viewMode,     \* AppState._viewMode
    _listeners,    \* AppState._listeners: event -> callbacks, in order
    held,          \* the array the calling code holds, and where it got it
    lastOp,        \* history: the operation performed last
    log,           \* history: the events the last operation dispatched
    thrown,        \* history: whether the last operation threw to its caller
    invoked,       \* history: the callbacks the last operation invoked, in order
    nested,        \* history: a dispatch began while another one was running
    run,           \* each call of bootstrapApplication(): where it stands
    appPc,         \* initApp(): where it stands
    superseded,    \* history: setStudies was called while initApp awaited
    norm,          \* a normalizer at work: its input and what it returned
    fuseInstance,  \* search-engine.js: the list the Fuse index was built over
    isSearchEngineReady,  \* search-engine.js: the index is built
    fuseLoadingPromise,   \* search-engine.js: the promise of the build, or 0
    promises,      \* the promises of the builds begun: their state, in order
    call,          \* a call of search(): where it stands, and what it returned
    lastInit,      \* history: what initializeSearchEngine returned last
    syncEngine,    \* the search engine of version 4.0: its index, and the
                   \* imports of Fuse.js under way with the lists they hold
    load           \* a call of loadStudiesData(): where it stands, the
                   \* response it got, and what it returned

storeVars == << objs, arrs, _studies, _initialized, _loading, _error,
                _categoryFilters, _subjectFilters, _searchQuery, _viewMode,
                _listeners, held, lastOp, log, thrown, invoked, nested >>

bootVars == << run >>

appVars == << appPc, superseded >>

normVars == << norm >>

searchVars == << fuseInstance, isSearchEngineReady, fuseLoadingPromise,
                 promises, call, lastInit, syncEngine >>

loadVars == << load >>

vars == << storeVars, bootVars, appVars, normVars, searchVars, loadVars >>

\* ------------------------------------------------------------------ heap
\* the store and the heap as one value, which the methods transform
St ==
    [objs |-> objs, arrs |-> arrs, studies |-> _studies,
     initialized |-> _initialized, loading |-> _loading, error |-> _error,
     categoryFilters |-> _categoryFilters, subjectFilters |-> _subjectFilters,
     searchQuery |-> _searchQuery, viewMode |-> _viewMode,
     listeners |-> _listeners, held |-> held, log |-> <<>>, exc |-> FALSE,
     ret |-> 0, invoked |-> <<>>, depth |-> 0, nested |-> FALSE]

MinFree(ids, used) == CHOOSE i \in ids \ used : \A j \in ids \ used : i <= j

\* new objects holding vals; the references go to ret
RECURSIVE AllocObjs(_, _, _)
AllocObjs(s, vals, acc) ==
    IF vals = <<>> THEN [s EXCEPT !.ret = acc]
    ELSE LET i == MinFree(ObjIds, DOMAIN s.objs)
         IN  AllocObjs([s EXCEPT !.objs = @ @@ (i :> Head(vals))],
                       Tail(vals), Append(acc, i))

\* a new array of the references refs; its reference goes to ret
AllocArr(s, refs) ==
    LET a == MinFree(ArrIds, DOMAIN s.arrs)
    IN  [s EXCEPT !.arrs = @ @@ (a :> refs), !.ret = a]

\* the study objects an array holds, by value
Deref(s, a) == [i \in 1 .. Len(s.arrs[a]) |-> s.objs[s.arrs[a][i]]]

\* the elements of q, each once, in the order of their first occurrence
RECURSIVE Distinct(_, _)
Distinct(q, acc) ==
    IF q = <<>> THEN acc
    ELSE Distinct(Tail(q),
                  IF Head(q) \in Range(acc) THEN acc ELSE Append(acc, Head(q)))

IndexOf(q, x) == CHOOSE i \in 1 .. Len(q) : q[i] = x

\* what nothing refers to any longer is gone, and what is left is numbered in
\* the order in which the canonical array and the held array reach it (a
\* reference has no meaning beyond which object it names)
Collect(s) ==
    LET isHeld == s.held.from # "none"
        same == isHeld /\ s.held.ref = s.studies
        heldRefs == IF isHeld THEN s.arrs[s.held.ref] ELSE <<>>
        order == Distinct(s.arrs[s.studies] \o heldRefs, <<>>)
        Renamed(q) == [i \in 1 .. Len(q) |-> IndexOf(order, q[i])]
        newArrs ==
            IF isHeld /\ ~same
            THEN (1 :> Renamed(s.arrs[s.studies])) @@ (2 :> Renamed(heldRefs))
            ELSE (1 :> Renamed(s.arrs[s.studies]))
    IN  [s EXCEPT !.arrs = newArrs,
                  !.objs = [k \in 1 .. Len(order) |-> s.objs[order[k]]],
                  !.studies = 1,
                  !.held = IF ~isHeld THEN s.held
                           ELSE [ref |-> IF same THEN 1 ELSE 2,
                                 from |-> s.held.from]]

\* structuredClone(list): a new array of new objects, equal by value
structuredClone(s, a) ==
    LET s1 == AllocObjs(s, Deref(s, a), <<>>)
    IN  AllocArr(s1, s1.ret)

\* ------------------------------------------------------------------ events
\* the data of a 'filter-changed' event
Payload(type, action, value) ==
    [type |-> type, action |-> action, value |-> value]

\* what the getters of the store return
Getters(s) ==
    [studies |-> [i \in 1 .. Len(s.arrs[s.studies]) |->
                     s.objs[s.arrs[s.studies][i]]],
     categoryFilters |-> s.categoryFilters,
     subjectFilters |-> s.subjectFilters,
     searchQuery |-> s.searchQuery, viewMode |-> s.viewMode,
     initialized |-> s.initialized, loading |-> s.loading,
     error |-> s.error]

\* a callback is called: the history notes which one, what it is given, and
\* what it finds in the store
Called(s, event, cb, data) ==
    [s EXCEPT !.invoked =
                  Append(@, [event |-> event, cb |-> cb, data |-> data,
                             seen |-> Getters(s)])]

\* removeEventListener taking out every registration of the callback
removeEventListenerEach(s, event, cb) ==
    IF event \notin DOMAIN s.listeners THEN s
    ELSE [s EXCEPT !.listeners[event] = SelectSeq(@, LAMBDA x : x # cb)]

\* AppState.removeEventListener(event, callback)
removeEventListener(s, event, cb) ==
    IF event \notin DOMAIN s.listeners THEN s
    ELSE IF cb \notin Range(s.listeners[event]) THEN s
    ELSE LET index == CHOOSE i \in DOMAIN s.listeners[event] :
                          /\ s.listeners[event][i] = cb
                          /\ \A j \in 1 .. (i - 1) :
                                 s.listeners[event][j] # cb
         IN  [s EXCEPT !.listeners[event] =
                           SubSeq(@, 1, index - 1)
                               \o SubSeq(@, index + 1, Len(@))]

RECURSIVE setViewMode(_, _)

\* one registered callback, called with the event's data
RunCallback(s, cb, event, data) ==
    CASE cb = "throw" -> [s EXCEPT !.exc = TRUE]
      [] cb = "capture" ->
            IF event = "studies-loaded"
            THEN [s EXCEPT !.held = [ref |-> data, from |-> "payload"]]
            ELSE s
      [] cb = "reenter" -> setViewMode(s, "list")
      [] cb = "removeSelf" -> removeEventListener(s, event, cb)

\* _notifyListeners without its try/catch
RECURSIVE NotifyNoCatch(_, _, _, _)
NotifyNoCatch(s, event, data, i) ==
    IF i > Len(s.listeners[event]) THEN s
    ELSE LET cb == s.listeners[event][i]
             s1 == RunCallback(Called(s, event, cb, data), cb, event, data)
         IN  IF s1.exc THEN s1 ELSE NotifyNoCatch(s1, event, data, i + 1)

\* the loop of _notifyListeners leaving at the first callback that throws,
\* the exception caught
RECURSIVE NotifyUntilError(_, _, _, _)
NotifyUntilError(s, event, data, i) ==
    IF i > Len(s.listeners[event]) THEN s
    ELSE LET cb == s.listeners[event][i]
             s1 == RunCallback(Called(s, event, cb, data), cb, event, data)
         IN  IF s1.exc THEN [s1 EXCEPT !.exc = FALSE]
             ELSE NotifyUntilError(s1, event, data, i + 1)

\* the loop of _notifyListeners from the i-th callback on: each callback in a
\* try/catch of its own
RECURSIVE NotifyFrom(_, _, _, _)
NotifyFrom(s, event, data, i) ==
    IF i > Len(s.listeners[event]) THEN s
    ELSE LET cb == s.listeners[event][i]
             s1 == RunCallback(Called(s, event, cb, data), cb, event, data)
         IN  NotifyFrom([s1 EXCEPT !.exc = FALSE], event, data, i + 1)

\* a dispatch begins: the history notes the event, and whether another
\* dispatch is running
Dispatching(s, event) ==
    [s EXCEPT !.log = Append(@, event), !.depth = @ + 1,
              !.nested = @ \/ s.depth > 0]

_notifyListenersBroken(s, event, data) ==
    IF event \notin DOMAIN s.listeners THEN s
    ELSE [NotifyNoCatch(Dispatching(s, event), event, data, 1)
             EXCEPT !.depth = @ - 1]

_notifyListeners(s, event, data) ==
    IF event \notin DOMAIN s.listeners THEN s
    ELSE [NotifyFrom(Dispatching(s, event), event, data, 1)
             EXCEPT !.depth = @ - 1]

\* ------------------------------------------------------------------ store
\* the catch block of setStudies
SetStudiesCatch(s) ==
    IF s.exc
    THEN _notifyListeners([s EXCEPT !.exc = FALSE, !.error = CallbackError],
                          "error", 0)
    ELSE s

\* the branch of setStudies for a payload that is not an array
SetStudiesInvalidBranch(s) ==
    LET s1 == AllocArr(s, <<>>)
        s2 == [s1 EXCEPT !.studies = s1.ret, !.error = InvalidStudiesData]
    IN  SetStudiesCatch(_notifyListeners(s2, "error", 0))

\* setStudies storing the caller's array itself
SetStudiesArrayAliasing(s, a) ==
    LET s2 == [s EXCEPT !.studies = a, !.initialized = TRUE,
                        !.loading = FALSE, !.error = NoError]
        s3 == _notifyListeners(s2, "studies-loaded", s2.studies)
        s4 == IF s3.exc THEN s3 ELSE _notifyListeners(s3, "state-changed", 0)
    IN  SetStudiesCatch(s4)

\* the branch of setStudies for an array
SetStudiesArrayBranch(s, a) ==
    LET s1 == structuredClone(s, a)
        s2 == [s1 EXCEPT !.studies = s1.ret, !.initialized = TRUE,
                         !.loading = FALSE, !.error = NoError]
        s3 == _notifyListeners(s2, "studies-loaded", s2.studies)
        s4 == IF s3.exc THEN s3 ELSE _notifyListeners(s3, "state-changed", 0)
    IN  SetStudiesCatch(s4)

\* AppState.setStudies(studies); kind says what studies is, a its reference
\* when it is an array
setStudies(s, kind, a) ==
    IF kind # "array" THEN SetStudiesInvalidBranch(s)
    ELSE SetStudiesArrayBranch(s, a)

\* AppState.getStudies(): [...this._studies]
getStudies(s) == AllocArr(s, s.arrs[s.studies])

\* addCategoryFilter pushing the category whether it is active or not
addCategoryFilterAlways(s, category) ==
    IF ~Truthy(category) \/ category.t # "string" THEN s
    ELSE _notifyListeners(
             _notifyListeners(
                 [s EXCEPT !.categoryFilters = Append(@, category.s)],
                 "filter-changed", Payload("category", "add", category)),
             "state-changed", 0)

\* AppState.addCategoryFilter(category), category a value
addCategoryFilter(s, category) ==
    IF ~Truthy(category) \/ category.t # "string" THEN s
    ELSE IF category.s \in Range(s.categoryFilters) THEN s
    ELSE _notifyListeners(
             _notifyListeners(
                 [s EXCEPT !.categoryFilters = Append(@, category.s)],
                 "filter-changed", Payload("category", "add", category)),
             "state-changed", 0)

\* AppState.removeCategoryFilter(category), category a value
removeCategoryFilter(s, category) ==
    IF category.t # "string" \/ category.s \notin Range(s.categoryFilters)
    THEN s
    ELSE LET index == CHOOSE i \in DOMAIN s.categoryFilters :
                          /\ s.categoryFilters[i] = category.s
                          /\ \A j \in 1 .. (i - 1) :
                                 s.categoryFilters[j] # category.s
         IN  _notifyListeners(
                 _notifyListeners(
                     [s EXCEPT !.categoryFilters =
                                   SubSeq(@, 1, index - 1)
                                       \o SubSeq(@, index + 1, Len(@))],
                     "filter-changed",
                     Payload("category", "remove", category)),
                 "state-changed", 0)

\* setSearchQuery dispatching before it stores the query
setSearchQueryLate(s, query) ==
    LET q == IF query.t # "string" THEN <<>> ELSE query.s
        s1 == _notifyListeners(
                  _notifyListeners(s, "filter-changed",
                                   Payload("search", "", Str(trim(q)))),
                  "state-changed", 0)
    IN  [s1 EXCEPT !.searchQuery = Str(trim(q))]

\* setSearchQuery storing the query as it is given
setSearchQueryAsGiven(s, query) ==
    LET s1 == [s EXCEPT !.searchQuery = query]
    IN  _notifyListeners(
            _notifyListeners(s1, "filter-changed",
                             Payload("search", "", s1.searchQuery)),
            "state-changed", 0)

\* AppState.setSearchQuery(query), query a value
setSearchQuery(s, query) ==
    LET q == IF query.t # "string" THEN <<>> ELSE query.s
        s1 == [s EXCEPT !.searchQuery = Str(trim(q))]
    IN  _notifyListeners(
            _notifyListeners(s1, "filter-changed",
                             Payload("search", "", s1.searchQuery)),
            "state-changed", 0)

\* setViewMode taking any mode
setViewModeAnyMode(s, mode) ==
    IF s.viewMode # mode
    THEN _notifyListeners(
             _notifyListeners([s EXCEPT !.viewMode = mode],
                              "view-mode-changed", mode),
             "state-changed", 0)
    ELSE s

\* AppState.setViewMode(mode); mode is 'card', 'list', or anything else
setViewMode(s, mode) ==
    LET m == IF mode # "card" /\ mode # "list" THEN "card" ELSE mode
    IN  IF s.viewMode # m
        THEN _notifyListeners(
                 _notifyListeners([s EXCEPT !.viewMode = m],
                                  "view-mode-changed", m),
                 "state-changed", 0)
        ELSE s

\* AppState.toggleViewMode()
toggleViewMode(s) ==
    setViewMode(s, IF s.viewMode = "card" THEN "list" ELSE "card")

\* addSubjectFilter pushing whatever it is given
addSubjectFilterAsGiven(s, subject) ==
    _notifyListeners(
        _notifyListeners([s EXCEPT !.subjectFilters = Append(@, subject.s)],
                         "filter-changed", Payload("subject", "add", subject)),
        "state-changed", 0)

\* AppState.addSubjectFilter(subject), subject a value
addSubjectFilter(s, subject) ==
    IF ~Truthy(subject) \/ subject.t # "string" THEN s
    ELSE IF subject.s \in Range(s.subjectFilters) THEN s
    ELSE _notifyListeners(
             _notifyListeners(
                 [s EXCEPT !.subjectFilters = Append(@, subject.s)],
                 "filter-changed", Payload("subject", "add", subject)),
             "state-changed", 0)

\* AppState.removeSubjectFilter(subject), subject a value
removeSubjectFilter(s, subject) ==
    IF subject.t # "string" \/ subject.s \notin Range(s.subjectFilters)
    THEN s
    ELSE LET index == CHOOSE i \in DOMAIN s.subjectFilters :
                          /\ s.subjectFilters[i] = subject.s
                          /\ \A j \in 1 .. (i - 1) :
                                 s.subjectFilters[j] # subject.s
         IN  _notifyListeners(
                 _notifyListeners(
                     [s EXCEPT !.subjectFilters =
                                   SubSeq(@, 1, index - 1)
                                       \o SubSeq(@, index + 1, Len(@))],
                     "filter-changed",
                     Payload("subject", "remove", subject)),
                 "state-changed", 0)

\* clearFilters leaving the search query as it is
clearFiltersKeepingQuery(s) ==
    _notifyListeners(
        _notifyListeners([s EXCEPT !.categoryFilters = <<>>,
                                   !.subjectFilters = <<>>],
                         "filter-changed",
                         Payload("clear-all", "clear", Undefined)),
        "state-changed", 0)

\* AppState.clearFilters()
clearFilters(s) ==
    _notifyListeners(
        _notifyListeners([s EXCEPT !.categoryFilters = <<>>,
                                   !.subjectFilters = <<>>,
                                   !.searchQuery = Str(<<>>)],
                         "filter-changed",
                         Payload("clear-all", "clear", Undefined)),
        "state-changed", 0)

\* AppState.clearSubjectFilters()
clearSubjectFilters(s) ==
    _notifyListeners(
        _notifyListeners([s EXCEPT !.subjectFilters = <<>>],
                         "filter-changed",
                         Payload("subject", "clear-all", Undefined)),
        "state-changed", 0)

\* AppState.addEventListener(event, callback)
addEventListener(s, event, cb) ==
    LET s1 == IF event \in DOMAIN s.listeners THEN s
              ELSE [s EXCEPT !.listeners = @ @@ (event :> <<>>)]
    IN  [s1 EXCEPT !.listeners[event] = Append(@, cb)]

\* ------------------------------------------------------------------ callers
\* displayStudies(studies): each study gets its missing fields filled in place
DisplayFill(st) ==
    [st EXCEPT !.title = OrElse(@, Str(Untitled)),
               !.description = OrElse(@, Str(<<>>)),
               !.organization = OrElse(@, Str(<<"Unknown">>)),
               !.date = OrElse(@, Str(<<>>)),
               !.categories =
                   IF Truthy(@) /\ @.t = "array" THEN @
                   ELSE IF @.t = "string"
                   THEN Arr(SelectSeq(TrimEach(Strs(split(@.s, "|"))), Truthy))
                   ELSE Arr(<< Str(Uncategorized) >>)]

displayStudies(s, a) ==
    [s EXCEPT !.objs = [o \in DOMAIN @ |->
                           IF o \in Range(s.arrs[a]) /\ Truthy(@[o])
                           THEN DisplayFill(@[o])
                           ELSE @[o]]]

NotHeld == [ref |-> 0, from |-> "none"]

\* the state after a method returned
Commit(s, op) ==
    LET c == Collect(s)
    IN  /\ objs' = c.objs
        /\ arrs' = c.arrs
        /\ _studies' = c.studies
        /\ _initialized' = c.initialized
        /\ _loading' = c.loading
        /\ _error' = c.error
        /\ _categoryFilters' = c.categoryFilters
        /\ _subjectFilters' = c.subjectFilters
        /\ _searchQuery' = c.searchQuery
        /\ _viewMode' = c.viewMode
        /\ _listeners' = c.listeners
        /\ held' = c.held
        /\ log' = c.log
        /\ thrown' = c.exc
        /\ invoked' = c.invoked
        /\ nested' = c.nested
        /\ lastOp' = op

Op(name, kind, vals) == [op |-> name, kind |-> kind, vals |-> vals]

\* the caller builds a list and passes it to setStudies, keeping the list
SetStudiesList(vals) ==
    /\ Len(vals) <= MaxLen
    /\ LET s0 == Collect([St EXCEPT !.held = NotHeld])
           s1 == AllocObjs(s0, vals, <<>>)
           s2 == AllocArr(s1, s1.ret)
           s3 == [s2 EXCEPT !.held = [ref |-> s2.ret, from |-> "arg"]]
       IN  Commit(setStudies(s3, "array", s2.ret),
                  Op("setStudies", "array", vals))
    /\ UNCHANGED << bootVars, appVars, normVars, searchVars, loadVars >>

\* the caller passes the array it holds to setStudies
SetStudiesHeld ==
    /\ held.from # "none"
    /\ Commit(setStudies(St, "array", held.ref),
              Op("setStudies", "array", Deref(St, held.ref)))
    /\ UNCHANGED << bootVars, appVars, normVars, searchVars, loadVars >>

\* the caller passes something that is not an array
SetStudiesInvalid(kind) ==
    /\ kind # "array"
    /\ Commit(setStudies(St, kind, 0), Op("setStudies", kind, <<>>))
    /\ UNCHANGED << bootVars, appVars, normVars, searchVars, loadVars >>

GetStudies ==
    /\ _studies \in DOMAIN arrs
    /\ LET s1 == getStudies(St)
       IN  Commit([s1 EXCEPT !.held = [ref |-> s1.ret, from |-> "get"]],
                  Op("getStudies", "", <<>>))
    /\ UNCHANGED << bootVars, appVars, normVars, searchVars, loadVars >>

AddEventListener(event, cb) ==
    /\ Len(_listeners["state-changed"]) + Len(_listeners["studies-loaded"])
         + Len(_listeners["filter-changed"]) + Len(_listeners["error"])
         + Len(_listeners["view-mode-changed"]) < MaxListeners
    /\ Commit(addEventListener(St, event, cb), Op("addEventListener", "", <<>>))
    /\ UNCHANGED << bootVars, appVars, normVars, searchVars, loadVars >>

\* the caller assigns a field of a study of the array it holds
MutateTitle(i) ==
    /\ held.from # "none"
    /\ i \in 1 .. Len(arrs[held.ref])
    /\ objs[arrs[held.ref][i]].title # Str(<<"A">>)
    /\ Commit([St EXCEPT !.objs[arrs[held.ref][i]].title = Str(<<"A">>)],
              Op("mutate", held.from, <<>>))
    /\ UNCHANGED << bootVars, appVars, normVars, searchVars, loadVars >>

\* the caller pushes onto the categories of a study of the array it holds
MutateCategories(i) ==
    /\ held.from # "none"
    /\ i \in 1 .. Len(arrs[held.ref])
    /\ Str(<<"X">>) \notin Range(objs[arrs[held.ref][i]].categories.a)
    /\ Commit([St EXCEPT !.objs[arrs[held.ref][i]].categories.a =
                             Append(@, Str(<<"X">>))],
              Op("mutate", held.from, <<>>))
    /\ UNCHANGED << bootVars, appVars, normVars, searchVars, loadVars >>

\* the caller pops the last element of the array it holds
MutatePop ==
    /\ held.from # "none"
    /\ arrs[held.ref] # <<>>
    /\ Commit([St EXCEPT !.arrs[held.ref] = SubSeq(@, 1, Len(@) - 1)],
              Op("mutate", held.from, <<>>))
    /\ UNCHANGED << bootVars, appVars, normVars, searchVars, loadVars >>

\* the view renders the array the caller holds
DisplayStudies ==
    /\ held.from # "none"
    /\ Commit(displayStudies(St, held.ref), Op("displayStudies", held.from, <<>>))
    /\ UNCHANGED << bootVars, appVars, normVars, searchVars, loadVars >>

\* the number of callbacks registered, over all events
Registered ==
    Len(_listeners["state-changed"]) + Len(_listeners["studies-loaded"])
        + Len(_listeners["filter-changed"]) + Len(_listeners["error"])
        + Len(_listeners["view-mode-changed"])

\* code of the view registers a callback for an event of the filters or of
\* the view mode
RegisterCallback(event, cb) ==
    /\ Registered < MaxCallbacks
    /\ Commit(addEventListener(St, event, cb),
              Op("addEventListener", event, <<>>))
    /\ UNCHANGED << bootVars, appVars, normVars, searchVars, loadVars >>

\* a checkbox of the category filters is checked
AddCategoryFilter(category) ==
    /\ Commit(addCategoryFilter(St, category),
              Op("addCategoryFilter", "", category))
    /\ UNCHANGED << bootVars, appVars, normVars, searchVars, loadVars >>

\* a checkbox of the category filters is unchecked
RemoveCategoryFilter(category) ==
    /\ Commit(removeCategoryFilter(St, category),
              Op("removeCategoryFilter", "", category))
    /\ UNCHANGED << bootVars, appVars, normVars, searchVars, loadVars >>

\* the search box changes
SetSearchQuery(query) ==
    /\ Commit(setSearchQuery(St, query), Op("setSearchQuery", "", query))
    /\ UNCHANGED << bootVars, appVars, normVars, searchVars, loadVars >>

\* the view is switched to a mode
SetViewMode(mode) ==
    /\ Commit(setViewMode(St, mode), Op("setViewMode", mode, <<>>))
    /\ UNCHANGED << bootVars, appVars, normVars, searchVars, loadVars >>

ToggleViewMode ==
    /\ Commit(toggleViewMode(St), Op("toggleViewMode", "", <<>>))
    /\ UNCHANGED << bootVars, appVars, normVars, searchVars, loadVars >>

\* a checkbox of the subject filters is checked
AddSubjectFilter(subject) ==
    /\ Commit(addSubjectFilter(St, subject),
              Op("addSubjectFilter", "", subject))
    /\ UNCHANGED << bootVars, appVars, normVars, searchVars, loadVars >>

\* a checkbox of the subject filters is unchecked
RemoveSubjectFilter(subject) ==
    /\ Commit(removeSubjectFilter(St, subject),
              Op("removeSubjectFilter", "", subject))
    /\ UNCHANGED << bootVars, appVars, normVars, searchVars, loadVars >>

\* code of the view takes a callback off an event
RemoveEventListener(event, cb) ==
    /\ Commit(removeEventListener(St, event, cb),
              Op("removeEventListener", event, cb))
    /\ UNCHANGED << bootVars, appVars, normVars, searchVars, loadVars >>

\* the button that clears the filters is clicked
ClearFilters ==
    /\ Commit(clearFilters(St), Op("clearFilters", "", <<>>))
    /\ UNCHANGED << bootVars, appVars, normVars, searchVars, loadVars >>

StoreInit ==
    /\ objs = <<>>
    /\ arrs = (1 :> <<>>)
    /\ _studies = 1
    /\ _initialized = FALSE
    /\ _loading = FALSE
    /\ _error = NoError
    /\ _categoryFilters = <<>>
    /\ _subjectFilters = <<>>
    /\ _searchQuery = Str(<<>>)
    /\ _viewMode = "card"
    /\ _listeners = [e \in Events |-> <<>>]
    /\ held = NotHeld
    /\ lastOp = Op("constructor", "", <<>>)
    /\ log = <<>>
    /\ thrown = FALSE
    /\ invoked = <<>>
    /\ nested = FALSE

\* ------------------------------------------------------------------ bootstrap
MAX_RETRIES == 3

\* the callers of bootstrapApplication(): initApp, and any other code
Runs == { "initApp", "other" }

Terminal == { "Succeeded", "FailedExhausted" }

\* what Math.random().toString(36).substring(2, 9) may give
RandomTexts == { "k3x9q2a" }

\* the entries loadStudiesData() may deliver in its array
LoadedEntries ==
    { MkStudy(<<"1">>, <<>>, << <<"W">> >>),
      MkRecord(Num(<<"2">>), Str(<<"A">>), Undefined, Str(<<" ", "W">>),
               NoMetadata(Undefined)),
      NotARecord(Null) }

\* how a call of loadStudiesData() may end: it throws, or it returns a value
LoaderOutcomes ==
    { [threw |-> TRUE, value |-> Undefined] }
      \cup { [threw |-> FALSE, value |-> v] :
                v \in { Null, Str(<<"x">>) }
                        \cup { Arr(q) : q \in SeqsUpTo(LoadedEntries, MaxLen) } }

\* bootstrapApplication() before its first statement
BootIdle ==
    [pc |-> "Idle", retries |-> 0, studies |-> Null, result |-> Undefined,
     calls |-> 0, delays |-> 0, fails |-> 0, last |-> Undefined]

\* the statements after the while loop
BootReturn(b, r) ==
    IF ~Truthy(b.studies) \/ b.studies.t # "array"
    THEN [b EXCEPT !.pc = "FailedExhausted", !.result = Arr(<<>>)]
    ELSE [b EXCEPT !.pc = "Succeeded",
                   !.result = normalizeStudiesData(b.studies, r)]

\* the while condition and, when it holds, the call of loadStudiesData()
BootLoop(b, r) ==
    IF b.retries < MAX_RETRIES
    THEN [b EXCEPT !.pc = "Loading", !.calls = @ + 1]
    ELSE BootReturn(b, r)

\* the loop body without its try/catch: what the loader throws is thrown on
BootAfterLoaderNoCatch(b, o, r) ==
    IF o.threw THEN [b EXCEPT !.pc = "Rejected"]
    ELSE IF Truthy(o.value) /\ o.value.t = "array" /\ Len(o.value.a) > 0
    THEN BootReturn([b EXCEPT !.studies = o.value], r)
    ELSE LET b1 == [b EXCEPT !.studies = Null, !.retries = @ + 1]
         IN  IF b1.retries < MAX_RETRIES
             THEN [b1 EXCEPT !.pc = "Retrying", !.delays = @ + 1]
             ELSE BootLoop(b1, r)

\* the loop body waiting RETRY_DELAY after the last attempt too
BootAfterLoaderAlwaysDelays(b, o, r) ==
    IF ~o.threw /\ Truthy(o.value) /\ o.value.t = "array"
          /\ Len(o.value.a) > 0
    THEN BootReturn([b EXCEPT !.studies = o.value], r)
    ELSE LET b1 == [b EXCEPT !.studies = IF o.threw THEN @ ELSE Null,
                             !.retries = @ + 1]
         IN  [b1 EXCEPT !.pc = "Retrying", !.delays = @ + 1]

\* the loop body taking an empty array for a success
BootAfterLoaderAcceptsEmpty(b, o, r) ==
    IF ~o.threw /\ Truthy(o.value) /\ o.value.t = "array"
    THEN BootReturn([b EXCEPT !.studies = o.value], r)
    ELSE LET b1 == [b EXCEPT !.studies = IF o.threw THEN @ ELSE Null,
                             !.retries = @ + 1]
         IN  IF b1.retries < MAX_RETRIES
             THEN [b1 EXCEPT !.pc = "Retrying", !.delays = @ + 1]
             ELSE BootLoop(b1, r)

\* the loop body from the point where loadStudiesData() has settled with o,
\* up to the next await or the return
BootAfterLoader(b, o, r) ==
    IF ~o.threw /\ Truthy(o.value) /\ o.value.t = "array"
          /\ Len(o.value.a) > 0
    THEN BootReturn([b EXCEPT !.studies = o.value], r)
    ELSE LET b1 == [b EXCEPT !.studies = IF o.threw THEN @ ELSE Null,
                             !.retries = @ + 1]
         IN  IF b1.retries < MAX_RETRIES
             THEN [b1 EXCEPT !.pc = "Retrying", !.delays = @ + 1]
             ELSE BootLoop(b1, r)

\* an attempt that did not deliver a non-empty array
FailedAttempt(o) == o.threw \/ o.value.t # "array" \/ o.value.a = <<>>

\* some code calls bootstrapApplication()
BootstrapCall(c) ==
    /\ run[c].pc = "Idle"
    /\ run' = [run EXCEPT ![c] = BootLoop(@, "")]
    /\ UNCHANGED << storeVars, appVars, normVars, searchVars, loadVars >>

\* the call of loadStudiesData() of run c settles
LoaderSettles(c, o, r) ==
    /\ run[c].pc = "Loading"
    /\ run' = [run EXCEPT ![c] =
                 [BootAfterLoader(@, o, r) EXCEPT
                     !.fails = IF FailedAttempt(o) THEN @ + 1 ELSE @,
                     !.last = o.value]]
    /\ UNCHANGED << storeVars, appVars, normVars, searchVars, loadVars >>

\* the timer of delay(RETRY_DELAY) of run c fires
DelayElapses(c) ==
    /\ run[c].pc = "Retrying"
    /\ run' = [run EXCEPT ![c] = BootLoop(@, "")]
    /\ UNCHANGED << storeVars, appVars, normVars, searchVars, loadVars >>

\* ------------------------------------------------------------------ initApp
\* the four domains initApp hands to populateCategoryFilters, sorted
DomainCategories ==
    << <<"AI Use", " and Perceptions">>,
       <<"Guidelines", ", ", "Training", ", ", "Policies">>,
       <<"Student ", "Performance", " Data">>, <<"Workforce", " Trends">> >>

RECURSIVE AddCategoryFilters(_, _)
AddCategoryFilters(s, cats) ==
    IF cats = <<>> THEN s
    ELSE AddCategoryFilters(addCategoryFilter(s, Str(Head(cats))), Tail(cats))

\* initApp from the point where bootstrapApplication() has resolved with
\* safeStudies: the calls that reach the store
InitAppStore(s, safeStudies) ==
    LET s1 == AllocObjs(s, safeStudies.a, <<>>)
        s2 == AllocArr(s1, s1.ret)
        s3 == setStudies(s2, "array", s2.ret)
        s4 == AddCategoryFilters(s3, DomainCategories)
    IN  clearSubjectFilters(s4)

\* DOMContentLoaded: initApp() runs up to its await of bootstrapApplication()
InitAppStart ==
    /\ appPc = "start"
    /\ run["initApp"].pc = "Idle"
    /\ appPc' = "awaiting"
    /\ run' = [run EXCEPT !["initApp"] = BootLoop(@, "")]
    /\ UNCHANGED << storeVars, superseded, normVars, searchVars, loadVars >>

\* bootstrapApplication() has resolved: initApp() runs to its end
InitAppResume ==
    /\ appPc = "awaiting"
    /\ run["initApp"].pc \in Terminal
    /\ LET safeStudies == run["initApp"].result
       IN  IF ~Truthy(safeStudies) \/ safeStudies.t # "array"
                \/ Len(safeStudies.a) = 0
           THEN /\ appPc' = "failed"
                /\ UNCHANGED storeVars
           ELSE /\ appPc' = "done"
                /\ Commit(InitAppStore(St, safeStudies),
                          Op("initApp", "array", safeStudies.a))
    /\ UNCHANGED << bootVars, superseded, normVars, searchVars, loadVars >>

\* other code calls AppState.setStudies(list) with a list of its own
WriterSetStudies(vals) ==
    /\ LET s1 == AllocObjs(St, vals, <<>>)
           s2 == AllocArr(s1, s1.ret)
       IN  Commit(setStudies(s2, "array", s2.ret),
                  Op("setStudies", "array", vals))
    /\ superseded' = (superseded \/ appPc = "awaiting")
    /\ UNCHANGED << bootVars, appPc, normVars, searchVars, loadVars >>

BootInit ==
    /\ run = [c \in Runs |-> BootIdle]
    /\ appPc = "start"
    /\ superseded = FALSE

\* ------------------------------------------------------------------ normalizers at work
\* the longest list of raw records handed to a normalizer
MaxRaw == 2

Normalizers == { "normalizeStudiesData", "normalizeStudies" }

\* what the categories field of a raw record may hold
RawCategories ==
    { Undefined, Str(<<>>), Str(<<" ">>), Str(<<" ", "W">>),
      Str(<<"A", "|", "B">>), Num(<<"5">>), Arr(<<>>),
      Arr(<< Str(<<" ">>) >>),
      Arr(<< Str(<<"A", " ">>), Num(<<"1">>), Str(<<>>) >>) }

\* what the metadata field of a raw record may hold
RawMetadata ==
    { MkMetadata(v, Undefined, Undefined) :
          v \in { Null, Str(<<>>), Str(<<"S">>), Num(<<"5">>),
                  Arr(<< Str(<<" ", "S">>) >>) } }
      \cup { NoMetadata(Undefined),
             [MkMetadata(Str(<<"S">>), Undefined, Undefined)
                 EXCEPT !.t = "json"] }

\* the entries of a list of raw records: records, and what is no record
RawEntries ==
    { MkRecord(Str(<<"1">>), Str(<<"T">>), Str(<<"O">>), c,
               MkMetadata(Arr(<<>>), Str(<<>>), Arr(<<>>))) :
          c \in RawCategories }
      \cup { MkRecord(Str(<<"1">>), Str(<<"T">>), Str(<<"O">>),
                      Arr(<< Str(<<"W">>) >>), m) : m \in RawMetadata }
      \cup { MkRecord(id, Undefined, Undefined, Undefined,
                      NoMetadata(Undefined)) :
                 id \in { Num(<<"2">>), Undefined } }
      \cup { NotARecord(v) :
                 v \in { Null, Undefined, Num(<<"5">>), Str(<<"x">>),
                         Bool(<<"true">>) } }

\* no normalizer is at work
NormIdle ==
    [fn |-> "none", pc |-> "input", input |-> Undefined, out |-> Undefined,
     again |-> Undefined]

\* the call fn(studies)
Normalized(fn, studies, r) ==
    IF fn = "normalizeStudiesData" THEN normalizeStudiesData(studies, r)
    ELSE normalizeStudies(studies)

\* a normalizer is called with the list of raw records
Normalize(r) ==
    /\ norm.pc = "input"
    /\ norm.fn \in Normalizers
    /\ norm' = [norm EXCEPT !.pc = "once",
                            !.out = Normalized(norm.fn, norm.input, r)]
    /\ UNCHANGED << storeVars, bootVars, appVars, searchVars, loadVars >>

\* the normalizer is called with the list it returned
NormalizeAgain(r) ==
    /\ norm.pc = "once"
    /\ norm' = [norm EXCEPT !.pc = "twice",
                            !.again = Normalized(norm.fn, norm.out, r)]
    /\ UNCHANGED << storeVars, bootVars, appVars, searchVars, loadVars >>

\* ------------------------------------------------------------------ search engine
\* the builds of the index begun in one session
MaxBuilds == 2
\* the longest list of studies handed to search() or to a filter
MaxList == 2

\* String.prototype.toLowerCase, for the letters the inputs hold
LowerCase(c) ==
    CASE c = "A" -> "a"
      [] c = "B" -> "b"
      [] c = "O" -> "o"
      [] c = "W" -> "w"
      [] OTHER -> c

toLowerCase(x) == [i \in 1 .. Len(x) |-> LowerCase(x[i])]

\* String.prototype.includes
includes(x, y) ==
    \E i \in 0 .. (Len(x) - Len(y)) : SubSeq(x, i + 1, i + Len(y)) = y

\* field && field.toLowerCase().includes(lowerQuery), field a string or absent
FieldIncludes(field, lowerQuery) ==
    /\ Truthy(field)
    /\ field.t = "string"
    /\ includes(toLowerCase(field.s), lowerQuery)

\* some string of the list includes the query
SomeIncludes(list, lowerQuery) ==
    /\ list.t = "array"
    /\ \E i \in DOMAIN list.a : FieldIncludes(list.a[i], lowerQuery)

\* !query || query.trim() === ''
EmptyQuery(query) == ~Truthy(query) \/ trim(query.s) = <<>>

\* utils.js: basicSearch(studies, query), studies a list and query a string
\* that is not empty
basicSearch(studies, query) ==
    LET lowerQuery == toLowerCase(query.s)
    IN  SelectSeq(studies,
                  LAMBDA study :
                      /\ Truthy(study)
                      /\ \/ FieldIncludes(study.title, lowerQuery)
                         \/ FieldIncludes(study.description, lowerQuery)
                         \/ FieldIncludes(study.organization, lowerQuery)
                         \/ SomeIncludes(study.categories, lowerQuery)
                         \/ /\ study.metadata.t = "object"
                            /\ SomeIncludes(study.metadata.subjects,
                                            lowerQuery))

\* search-engine.js: performSimpleSearch(query, studies); stored is what
\* AppState.getStudies() returns
performSimpleSearch(query, studies, stored) ==
    LET studiesData == IF Len(studies) > 0 THEN studies ELSE stored
        lowercaseQuery == toLowerCase(query.s)
    IN  IF EmptyQuery(query) THEN studiesData
        ELSE SelectSeq(studiesData,
                       LAMBDA study :
                           \/ FieldIncludes(study.title, lowercaseQuery)
                           \/ FieldIncludes(study.description, lowercaseQuery)
                           \/ FieldIncludes(study.organization, lowercaseQuery)
                           \/ SomeIncludes(study.categories, lowercaseQuery))

\* fuseInstance.search(query).map(result => result.item): Fuse.js comes from a
\* CDN; its results are items of the list the index was built over, here the
\* items one of whose keys (title, description, categories, organization,
\* metadata.subjects) includes the query
FuseSearch(index, query) == basicSearch(index, query)

\* the module variables of search-engine.js as one value; ret is what the
\* call of initializeSearchEngine returned: a promise of promises, or -1 for
\* a new promise that is rejected
Engine ==
    [fuseInstance |-> fuseInstance,
     isSearchEngineReady |-> isSearchEngineReady,
     fuseLoadingPromise |-> fuseLoadingPromise,
     promises |-> promises, ret |-> 0]

\* initializeSearchEngine without the check for a promise in progress
initializeSearchEngineAgain(e, studies) ==
    IF ~Truthy(studies) \/ studies.t # "array" \/ Len(studies.a) = 0
    THEN [e EXCEPT !.ret = -1]
    ELSE [e EXCEPT !.promises = Append(@, [state |-> "pending",
                                           studies |-> studies.a]),
                   !.fuseLoadingPromise = Len(e.promises) + 1,
                   !.ret = Len(e.promises) + 1]

\* initializeSearchEngine(studies) up to its return: the import of Fuse.js is
\* begun, and the promise of the build is kept
initializeSearchEngine(e, studies) ==
    IF e.fuseLoadingPromise # 0 THEN [e EXCEPT !.ret = e.fuseLoadingPromise]
    ELSE IF ~Truthy(studies) \/ studies.t # "array" \/ Len(studies.a) = 0
    THEN [e EXCEPT !.ret = -1]
    ELSE [e EXCEPT !.promises = Append(@, [state |-> "pending",
                                           studies |-> studies.a]),
                   !.fuseLoadingPromise = Len(e.promises) + 1,
                   !.ret = Len(e.promises) + 1]

\* the .then of the import in the build of promise k: new Fuse(studies)
\* returns, or throws
FuseLoaded(e, k, constructed) ==
    IF constructed
    THEN [e EXCEPT !.fuseInstance = Arr(e.promises[k].studies),
                   !.isSearchEngineReady = TRUE,
                   !.promises[k].state = "fulfilled"]
    ELSE [e EXCEPT !.promises[k].state = "rejected"]

\* the .catch of the import in the build of promise k
FuseLoadFailed(e, k) ==
    [e EXCEPT !.fuseLoadingPromise = 0, !.promises[k].state = "rejected"]

\* the state of the build as a caller of search() finds it
BuildState ==
    IF isSearchEngineReady /\ Truthy(fuseInstance) THEN "ready"
    ELSE IF \E k \in DOMAIN promises : promises[k].state = "pending"
    THEN "inFlight"
    ELSE IF \E k \in DOMAIN promises : promises[k].state = "rejected"
    THEN "failed"
    ELSE "notStarted"

NoCall ==
    [pc |-> "idle", query |-> Str(<<>>), studies |-> <<>>, promise |-> 0,
     build |-> "notStarted", via |-> "", result |-> <<>>]

Returned(c, via, result) ==
    [c EXCEPT !.pc = "returned", !.via = via, !.result = result]

\* search(query, studies) from its await on, or from its beginning when it
\* does not await
SearchAfterAwait(c, e, stored) ==
    IF Truthy(e.fuseInstance)
    THEN Returned(c, "fuse", FuseSearch(e.fuseInstance.a, c.query))
    ELSE Returned(c, "simple", performSimpleSearch(c.query, c.studies, stored))

\* search(query, studies) up to its await, or to its return
search(c, e, stored) ==
    IF EmptyQuery(c.query)
    THEN Returned(c, "all", IF Len(c.studies) > 0 THEN c.studies ELSE stored)
    ELSE IF ~e.isSearchEngineReady \/ ~Truthy(e.fuseInstance)
    THEN IF e.fuseLoadingPromise # 0
         THEN [c EXCEPT !.pc = "awaiting", !.promise = e.fuseLoadingPromise]
         ELSE Returned(c, "simple",
                       performSimpleSearch(c.query, c.studies, stored))
    ELSE SearchAfterAwait(c, e, stored)

\* search(query, studies) after the promise it awaited is settled
SearchSettled(c, e, stored) ==
    IF e.promises[c.promise].state = "rejected"
    THEN Returned(c, "simple", performSimpleSearch(c.query, c.studies, stored))
    ELSE SearchAfterAwait(c, e, stored)

\* the studies and the queries handed to the search engine
SearchStudies ==
    { MkRecord(Str(<<"7">>), Str(<<"A", "B">>), Str(<<"O">>),
               Arr(<< Str(<<"W">>) >>),
               MkMetadata(Arr(<<>>), Str(<<>>), Arr(<<>>))),
      MkRecord(Str(<<"8">>), Str(<<"c">>), Str(<<"O">>),
               Arr(<< Str(<<"W">>) >>),
               MkMetadata(Arr(<< Str(<<"b">>) >>), Str(<<>>), Arr(<<>>))) }

SearchQueries == { Str(<<"B">>), Str(<<" ">>) }

\* what initApp and other code hand to initializeSearchEngine
BuildInputs ==
    { Null, Arr(<<>>),
      Arr(<< MkRecord(Str(<<"8">>), Str(<<"c">>), Str(<<"O">>),
                      Arr(<< Str(<<"W">>) >>),
                      MkMetadata(Arr(<< Str(<<"b">>) >>), Str(<<>>),
                                 Arr(<<>>))) >>) }

\* the module variables after a step of the search engine
EngineBecomes(e) ==
    /\ fuseInstance' = e.fuseInstance
    /\ isSearchEngineReady' = e.isSearchEngineReady
    /\ fuseLoadingPromise' = e.fuseLoadingPromise
    /\ promises' = e.promises

\* what AppState.getStudies() returns, by value
Stored == Deref(St, _studies)

InitializeSearchEngine(studies) ==
    /\ Len(initializeSearchEngine(Engine, studies).promises) <= MaxBuilds
    /\ EngineBecomes(initializeSearchEngine(Engine, studies))
    /\ lastInit' = [ret |-> initializeSearchEngine(Engine, studies).ret,
                    existing |-> fuseLoadingPromise]
    /\ UNCHANGED << storeVars, bootVars, appVars, normVars, call, syncEngine,
                    loadVars >>

\* the import of Fuse.js is fulfilled, and the index is built or the
\* constructor throws
ImportFulfilled(k, constructed) ==
    /\ k \in DOMAIN promises
    /\ promises[k].state = "pending"
    /\ EngineBecomes(FuseLoaded(Engine, k, constructed))
    /\ UNCHANGED << storeVars, bootVars, appVars, normVars, call, lastInit,
                    syncEngine, loadVars >>

\* the import of Fuse.js is rejected
ImportRejected(k) ==
    /\ k \in DOMAIN promises
    /\ promises[k].state = "pending"
    /\ EngineBecomes(FuseLoadFailed(Engine, k))
    /\ UNCHANGED << storeVars, bootVars, appVars, normVars, call, lastInit,
                    syncEngine, loadVars >>

\* code calls search(query, studies)
Search(query, studies) ==
    /\ call.pc # "awaiting"
    /\ call' = search([NoCall EXCEPT !.query = query, !.studies = studies,
                                     !.build = BuildState],
                      Engine, Stored)
    /\ UNCHANGED << storeVars, bootVars, appVars, normVars, fuseInstance,
                    isSearchEngineReady, fuseLoadingPromise, promises,
                    lastInit, syncEngine, loadVars >>

\* the promise search() awaits is settled: search() goes on
SearchResumes ==
    /\ call.pc = "awaiting"
    /\ promises[call.promise].state # "pending"
    /\ call' = SearchSettled(call, Engine, Stored)
    /\ UNCHANGED << storeVars, bootVars, appVars, normVars, fuseInstance,
                    isSearchEngineReady, fuseLoadingPromise, promises,
                    lastInit, syncEngine, loadVars >>

SearchIdle ==
    /\ fuseInstance = Null
    /\ isSearchEngineReady = FALSE
    /\ fuseLoadingPromise = 0
    /\ promises = <<>>
    /\ call = NoCall
    /\ lastInit = [ret |-> 0, existing |-> 0]
    /\ syncEngine = [fuseInstance |-> Null, imports |-> <<>>]

\* ------------------------------------------------------------------ filters
\* the labels of the domain buttons and the categories of the data, cut at
\* the keywords filterStudies looks for
AIUseAndPerceptions == <<"AI Use", " and Perceptions">>
GuidelinesTrainingPolicies ==
    <<"Guidelines", ", ", "Training", ", ", "Policies">>
StudentPerformanceData == <<"Student ", "Performance", " Data">>
WorkforceTrends == <<"Workforce", " Trends">>
CurrentAIUse ==
    <<"Current ", "AI Use", " and Perceptions in PK 12 & HigherEd">>
CurrentStateOfGuidelines ==
    <<"Current State of ", "Guidelines", ", ", "Training", ", and ",
      "Policies">>

\* the categories of a study as filterStudies reads them
StudyCategories(study) ==
    IF study.categories.t = "string" THEN split(study.categories.s, "|")
    ELSE IF study.categories.t = "array"
    THEN [i \in DOMAIN study.categories.a |-> study.categories.a[i].s]
    ELSE <<>>

\* the rules of filterStudies between a button and a category of the data
AliasMatch(filterCategory, studyCategory) ==
    \/ /\ filterCategory = AIUseAndPerceptions
       /\ \/ studyCategory = CurrentAIUse
          \/ includes(studyCategory, <<"AI Use">>)
          \/ includes(studyCategory, <<"AI Perceptions">>)
    \/ /\ filterCategory = GuidelinesTrainingPolicies
       /\ \/ studyCategory = CurrentStateOfGuidelines
          \/ includes(studyCategory, <<"Guidelines">>)
          \/ includes(studyCategory, <<"Training">>)
          \/ includes(studyCategory, <<"Policies">>)
    \/ /\ filterCategory = StudentPerformanceData
       /\ \/ studyCategory = StudentPerformanceData
          \/ includes(studyCategory, <<"Performance">>)
          \/ includes(studyCategory, <<"Student Data">>)
    \/ /\ filterCategory = WorkforceTrends
       /\ \/ studyCategory = WorkforceTrends
          \/ includes(studyCategory, <<"Workforce">>)

\* the callback of studies.filter in filterStudies
HasSelectedCategory(categoryFilters, study) ==
    /\ Truthy(study)
    /\ \E i \in DOMAIN StudyCategories(study) :
           \/ StudyCategories(study)[i] \in Range(categoryFilters)
           \/ \E f \in Range(categoryFilters) :
                  AliasMatch(f, StudyCategories(study)[i])

\* filterStudies going through the studies although no filter is active
filterStudiesEachTime(s, studies) ==
    IF ~Truthy(studies) \/ studies.t # "array" THEN Arr(<<>>)
    ELSE Arr(SelectSeq(studies.a,
                       LAMBDA study :
                           HasSelectedCategory(s.categoryFilters, study)))

\* filterStudies(studies), studies a value: a list of studies whose
\* categories hold strings, or something that is no array
filterStudies(s, studies) ==
    IF ~Truthy(studies) \/ studies.t # "array" THEN Arr(<<>>)
    ELSE IF Len(s.categoryFilters) = 0 THEN studies
    ELSE Arr(SelectSeq(studies.a,
                       LAMBDA study :
                           HasSelectedCategory(s.categoryFilters, study)))

\* the promise a call of an async function returns
Promise == [t |-> "promise", s |-> <<>>, a |-> <<>>]

\* search-engine.js: getFilteredResults(); search is async, and what it
\* returns goes to filterStudies as it is
getFilteredResults(s) == filterStudies(s, Promise)

\* the callback of results.filter in the updateResults of the older handlers
CategoryIncluded(categoryFilters, study) ==
    /\ Truthy(study)
    /\ study.categories.t = "array"
    /\ \E i \in DOMAIN study.categories.a :
           study.categories.a[i].s \in Range(categoryFilters)

\* utils.js: initializeSearchEngine(studies) of version 4.0 up to its return:
\* a list that is not a list or is empty is refused, the import of Fuse.js is
\* begun else, and its callback holds the list
initializeSearchEngineSync(e, studies) ==
    IF ~Truthy(studies) \/ studies.t # "array" \/ Len(studies.a) = 0
    THEN e
    ELSE [e EXCEPT !.imports = Append(@, studies)]

\* utils.js: the import k is fulfilled, and the index is built over the list
\* the callback holds
FuseImported(e, k) ==
    [e EXCEPT !.fuseInstance = e.imports[k],
              !.imports = SubSeq(@, 1, k - 1) \o SubSeq(@, k + 1, Len(@))]

\* utils.js: the import k is rejected: the error is logged
FuseImportFailed(e, k) ==
    [e EXCEPT !.imports = SubSeq(@, 1, k - 1) \o SubSeq(@, k + 1, Len(@))]

\* utils.js: search(studies, query), studies a list and query a string: the
\* fallback before Fuse.js is loaded, the index after
searchSync(e, studies, query) ==
    IF EmptyQuery(query) THEN studies
    ELSE IF ~Truthy(e.fuseInstance)
    THEN basicSearch(studies, Str(trim(query.s)))
    ELSE FuseSearch(e.fuseInstance.a, Str(trim(query.s)))

\* updateResults() of the older handlers: the studies of the store, the
\* category filters applied, then the query (by the search of utils.js), and
\* the result displayed; the studies displayed go to ret
updateResults(s, e) ==
    LET all == s.arrs[s.studies]
        filtered ==
            IF Len(s.categoryFilters) > 0
            THEN SelectSeq(all, LAMBDA o :
                                   CategoryIncluded(s.categoryFilters,
                                                    s.objs[o]))
            ELSE all
        found ==
            IF Truthy(s.searchQuery)
            THEN SelectSeq(filtered,
                           LAMBDA o : searchSync(e, << s.objs[o] >>,
                                                 s.searchQuery) # <<>>)
            ELSE filtered
        s1 == AllocArr(s, found)
    IN  IF Truthy(s.searchQuery) /\ ~EmptyQuery(s.searchQuery)
           /\ Truthy(e.fuseInstance)
        THEN [s EXCEPT !.ret = searchSync(e, <<>>, s.searchQuery)]
        ELSE [displayStudies(s1, s1.ret) EXCEPT
                 !.ret = [i \in DOMAIN found |-> s.objs[found[i]]]]

\* the studies of the catalog the filters are tried on
CatalogStudies ==
    { MkRecord(Str(<<"3">>), Str(<<"T">>), Str(<<"O">>),
               Arr(<< Str(CurrentAIUse) >>),
               MkMetadata(Arr(<< Str(<<"math">>) >>), Str(<<>>), Arr(<<>>))),
      MkRecord(Str(<<"4">>), Str(<<"T">>), Str(<<"O">>),
               Arr(<< Str(WorkforceTrends) >>),
               MkMetadata(Arr(<<>>), Str(<<>>), Arr(<<>>))) }

\* the buttons of the domains that are clicked
Buttons ==
    { Str(AIUseAndPerceptions), Str(StudentPerformanceData),
      Str(WorkforceTrends) }

\* what a call of a filter was given and what it returned
Filtered(input, output) == [input |-> input, output |-> output]

\* code calls initializeSearchEngine(studies) of version 4.0
InitializeSearchEngineSync(studies) ==
    /\ Len(initializeSearchEngineSync(syncEngine, studies).imports)
           <= MaxBuilds
    /\ syncEngine' = initializeSearchEngineSync(syncEngine, studies)
    /\ UNCHANGED << storeVars, bootVars, appVars, normVars, fuseInstance,
                    isSearchEngineReady, fuseLoadingPromise, promises, call,
                    lastInit, loadVars >>

\* an import of Fuse.js of version 4.0 is fulfilled or rejected
ImportSettled(k, fulfilled) ==
    /\ k \in DOMAIN syncEngine.imports
    /\ syncEngine' = IF fulfilled THEN FuseImported(syncEngine, k)
                     ELSE FuseImportFailed(syncEngine, k)
    /\ UNCHANGED << storeVars, bootVars, appVars, normVars, fuseInstance,
                    isSearchEngineReady, fuseLoadingPromise, promises, call,
                    lastInit, loadVars >>

\* code calls filterStudies(studies)
FilterStudies(studies) ==
    /\ Commit(St, Op("filterStudies", "",
                     Filtered(studies, filterStudies(St, Arr(studies)).a)))
    /\ UNCHANGED << bootVars, appVars, normVars, searchVars, loadVars >>

\* code calls getFilteredResults()
GetFilteredResults ==
    /\ Commit(St, Op("getFilteredResults", "",
                     Filtered(Stored, getFilteredResults(St).a)))
    /\ UNCHANGED << bootVars, appVars, normVars, searchVars, loadVars >>

\* a filter changed: the older handlers update the results
UpdateResults ==
    /\ Commit(updateResults(St, syncEngine),
              Op("updateResults", "",
                 Filtered(Stored, updateResults(St, syncEngine).ret)))
    /\ UNCHANGED << bootVars, appVars, normVars, searchVars, loadVars >>

\* ------------------------------------------------------------------ data loader
\* A CSV text is a string of characters: the line feed, the comma, the double
\* quote, the pipe, the equals sign, the space, and runs of other characters
\* that the parsers never look into.

\* the character loop of parseCSV over one line: the values between the
\* commas that are outside quotes; keep tells whether the quote characters
\* stay in the value
RECURSIVE Scan(_, _, _, _, _)
Scan(line, inQuotes, currentValue, values, keep) ==
    IF line = <<>> THEN Append(values, currentValue)
    ELSE IF Head(line) = "\""
    THEN Scan(Tail(line), ~inQuotes,
              IF keep THEN Append(currentValue, "\"") ELSE currentValue,
              values, keep)
    ELSE IF Head(line) = "," /\ ~inQuotes
    THEN Scan(Tail(line), inQuotes, <<>>, Append(values, currentValue), keep)
    ELSE Scan(Tail(line), inQuotes, Append(currentValue, Head(line)), values,
              keep)

\* if (value.startsWith('"') && value.endsWith('"'))
\*     value = value.substring(1, value.length - 1)
\* (substring(1, 0) of a value of one character is the value)
Unquoted(value) ==
    IF value # <<>> /\ Head(value) = "\"" /\ value[Len(value)] = "\""
    THEN IF Len(value) = 1 THEN value
         ELSE SubSeq(value, 2, Len(value) - 1)
    ELSE value

\* the object the assignments obj[headers[i]] = cell(i) for i = 1 .. n leave:
\* a key holds what was assigned to it last
Assigned(headers, n, cells) ==
    [h \in { headers[i] : i \in 1 .. n } |->
        cells[CHOOSE i \in 1 .. n :
                  /\ headers[i] = h
                  /\ \A j \in 1 .. n : headers[j] = h => j <= i]]

ShorterOf(m, n) == IF m < n THEN m ELSE n

\* lines[0].split(',').map(h => h.trim())
HeadersOf(line) ==
    [i \in 1 .. Len(split(line, ",")) |-> trim(split(line, ",")[i])]

\* parseCSV(text) of the data loader
parseCSV(text) ==
    IF ~Truthy(text) \/ text.t # "string" THEN Arr(<<>>)
    ELSE LET lines == split(text.s, "\n")
             headers == HeadersOf(lines[1])
             dataLines ==
                 SelectSeq([i \in 1 .. Len(lines) - 1 |-> trim(lines[i + 1])],
                           LAMBDA line : line # <<>>)
             Row(line) ==
                 LET values == Scan(line, FALSE, <<>>, <<>>, TRUE)
                 IN  Assigned(headers, ShorterOf(Len(headers), Len(values)),
                              [i \in DOMAIN values |->
                                  Str(Unquoted(trim(values[i])))])
         IN  IF Len(lines) < 2 THEN Arr(<<>>)
             ELSE Arr([i \in DOMAIN dataLines |-> Row(dataLines[i])])

\* parseCSV(text) of the data loader of version 3, for a text that is a
\* string: the first header is dropped when it is empty, the first field of
\* a line always
parseCSVMarked(text) ==
    LET lines == split(text.s, "\n")
        all == HeadersOf(lines[1])
        headers == IF all[1] = <<>> THEN Tail(all) ELSE all
        dataLines == SelectSeq(Tail(lines), LAMBDA line : trim(line) # <<>>)
        Row(line) ==
            LET dataFields == Tail(Scan(line, FALSE, <<>>, <<>>, FALSE))
            IN  Assigned(headers, ShorterOf(Len(headers), Len(dataFields)),
                         [i \in DOMAIN dataFields |->
                             Str(Unquoted(trim(dataFields[i])))])
    IN  IF Len(lines) < 2 THEN Arr(<<>>)
        ELSE Arr([i \in DOMAIN dataLines |-> Row(dataLines[i])])

\* String.prototype.trim over the space and the line feed
RECURSIVE trimText(_)
trimText(x) ==
    IF x # <<>> /\ Head(x) \in { " ", "\n" } THEN trimText(Tail(x))
    ELSE IF x # <<>> /\ x[Len(x)] \in { " ", "\n" }
    THEN trimText(SubSeq(x, 1, Len(x) - 1))
    ELSE x

\* x.replace(/^"|"$/g, '')
StripQuotes(x) ==
    LET y == IF x # <<>> /\ Head(x) = "\"" THEN Tail(x) ELSE x
    IN  IF y # <<>> /\ y[Len(y)] = "\"" THEN SubSeq(y, 1, Len(y) - 1) ELSE y

\* an object with the keys and values of fields
Object(fields) == [t |-> "object", s |-> <<>>, a |-> <<>>, o |-> fields]

\* csv-parser.js: the metadata object of a value of key=value items between
\* pipes; an item without a key or without a value is left out, a value with
\* a comma becomes a list
MetadataObject(value) ==
    LET items == split(value, "|")
        Part(i, k) == IF k <= Len(split(items[i], "="))
                      THEN split(items[i], "=")[k] ELSE <<>>
        kept == SelectSeq([i \in DOMAIN items |-> i],
                          LAMBDA i : Part(i, 1) # <<>> /\ Part(i, 2) # <<>>)
    IN  Object(Assigned([n \in DOMAIN kept |-> trim(Part(kept[n], 1))],
                        Len(kept),
                        [n \in DOMAIN kept |->
                            IF "," \in Range(Part(kept[n], 2))
                            THEN Arr(TrimEach(Strs(split(Part(kept[n], 2),
                                                         ","))))
                            ELSE Str(trim(Part(kept[n], 2)))]))

\* csv-parser.js: parseCSV(csvText), for a text that is a string and holds no
\* backslash
parseCSVLegacy(csvText) ==
    LET lines == split(trimText(csvText.s), "\n")
        headers == [j \in 1 .. Len(split(lines[1], ",")) |->
                       trim(StripQuotes(split(lines[1], ",")[j]))]
        Row(line) ==
            LET fields == Scan(line, FALSE, <<>>, <<>>, FALSE)
                Value(j) == IF j <= Len(fields)
                            THEN trim(StripQuotes(fields[j])) ELSE <<>>
            IN  Assigned(headers, Len(headers),
                         [j \in DOMAIN headers |->
                             IF headers[j] = <<"categories">>
                             THEN Arr(TrimEach(Strs(split(Value(j), "|"))))
                             ELSE IF headers[j] = <<"metadata">>
                             THEN MetadataObject(Value(j))
                             ELSE Str(Value(j))])
    IN  Arr([i \in 1 .. Len(lines) - 1 |-> Row(lines[i + 1])])

\* the field of a parsed row that a header names, undefined without it
Field(obj, header) ==
    IF << header >> \in DOMAIN obj THEN obj[<< header >>] ELSE Undefined

\* a parsed row as the entry of a list of raw records
RowRecord(obj) ==
    LET m == Field(obj, "metadata")
    IN  [t |-> "object", id |-> Field(obj, "id"),
         title |-> Field(obj, "title"), url |-> Field(obj, "url"),
         organization |-> Field(obj, "organization"),
         date |-> Field(obj, "date"),
         description |-> Field(obj, "description"),
         categories |-> Field(obj, "categories"),
         metadata |-> IF m.t = "object"
                      THEN MkMetadata(Field(m.o, "subjects"),
                                      Field(m.o, "year"),
                                      Field(m.o, "authors"))
                      ELSE NoMetadata(m)]

RowRecords(items) == Arr([i \in DOMAIN items |-> RowRecord(items[i])])

\* the responses of fetch: a response that is ok, one that is not, and none
Responses == { "ok", "not ok", "network error" }

Loaders == { "data-loader", "data-loader 3", "csv-parser" }

NoLoad ==
    [pc |-> "idle", loader |-> "none", fetches |-> 0, response |-> "none",
     header |-> <<>>, rows |-> <<>>, text |-> <<>>, outcome |-> "none",
     items |-> <<>>, result |-> <<>>]

Fulfilled(l, items, result) ==
    [l EXCEPT !.pc = "settled", !.outcome = "fulfilled", !.items = items,
              !.result = result]

Rejected(l) == [l EXCEPT !.pc = "settled", !.outcome = "rejected"]

\* loadStudiesData() of the data loader after the fetch settled: the
\* response is checked, the text parsed and the rows normalized
loadStudiesData(l) ==
    IF l.response # "ok" THEN Rejected(l)
    ELSE LET items == parseCSV(Str(l.text)).a
         IN  Fulfilled(l, items, normalizeStudies(RowRecords(items)).a)

\* loadStudiesData() of the data loader of version 3 after the fetch settled:
\* the response is checked, the text parsed and the rows that are objects
\* kept
loadStudiesDataMarked(l) ==
    IF l.response # "ok" THEN Rejected(l)
    ELSE LET data == parseCSVMarked(Str(l.text)).a
         IN  Fulfilled(l, data, data)

\* csv-parser.js: loadStudiesData() after the fetch settled: the text of the
\* response is parsed whether the response is ok or not, and a fetch that
\* failed gives the empty list
loadStudiesDataLegacy(l) ==
    IF l.response = "network error" THEN Fulfilled(l, <<>>, <<>>)
    ELSE LET rows == parseCSVLegacy(Str(l.text)).a
         IN  Fulfilled(l, rows, rows)

\* a cell of a CSV row as it is written: between quotes or as it is
CellText(c) ==
    IF c.quoted THEN << "\"" >> \o c.content \o << "\"" >> ELSE c.content

\* the texts of q with sep between them
RECURSIVE Joined(_, _)
Joined(q, sep) ==
    IF q = <<>> THEN <<>>
    ELSE IF Len(q) = 1 THEN q[1]
    ELSE q[1] \o << sep >> \o Joined(Tail(q), sep)

\* the CSV text of a header line and data rows
CsvText(header, rows) ==
    Joined(<< Joined(header, ",") >>
               \o [r \in DOMAIN rows |->
                      Joined([i \in DOMAIN rows[r] |-> CellText(rows[r][i])],
                             ",")],
           "\n")

\* code calls loadStudiesData(): the fetch is begun
LoadStudiesData(loader) ==
    /\ load.pc # "fetching"
    /\ load' = [NoLoad EXCEPT !.pc = "fetching", !.loader = loader,
                              !.fetches = 1]
    /\ UNCHANGED << storeVars, bootVars, appVars, normVars, searchVars >>

\* the fetch settles with a response whose text is the CSV text of header
\* and rows, and loadStudiesData() runs to its end
FetchSettles(response, header, rows) ==
    /\ load.pc = "fetching"
    /\ LET l == [load EXCEPT !.response = response, !.header = header,
                             !.rows = rows, !.text = CsvText(header, rows)]
       IN  load' = CASE load.loader = "data-loader" -> loadStudiesData(l)
                     [] load.loader = "data-loader 3" ->
                            loadStudiesDataMarked(l)
                     [] OTHER -> loadStudiesDataLegacy(l)
    /\ UNCHANGED << storeVars, bootVars, appVars, normVars, searchVars >>

LoadIdle == load = NoLoad

\* the most data rows of a CSV text
MaxRows == 1

\* the header lines of the CSV texts: the names of two columns
LoadHeaders ==
    { << <<"id">>, <<"metadata">> >>, << <<"id">>, <<"categories">> >>,
      << <<>>, <<"id">> >> }

\* the cells of the data rows: what is written between the separators, and
\* whether it is written between quotes
LoadCells ==
    { [quoted |-> FALSE, content |-> <<"1">>],
      [quoted |-> FALSE, content |-> <<"Workforce", " Trends">>],
      [quoted |-> FALSE, content |-> <<"subjects", "=", "economics">>],
      [quoted |-> TRUE,
       content |-> <<"subjects", "=", "math", ",", "science">>],
      [quoted |-> FALSE, content |-> <<>>] }

LoadRows == { << c, d >> : c \in LoadCells, d \in LoadCells }

\* ------------------------------------------------------------------ specifications
Init == StoreInit /\ BootInit /\ norm = NormIdle /\ SearchIdle /\ LoadIdle

\* a normalizer and a list of raw records for it
NormInit ==
    /\ StoreInit
    /\ BootInit
    /\ SearchIdle
    /\ LoadIdle
    /\ norm \in { [NormIdle EXCEPT !.fn = fn, !.input = Arr(q)] :
                      fn \in Normalizers, q \in SeqsUpTo(RawEntries, MaxRaw) }

NormNext ==
    \/ \E r \in RandomTexts : Normalize(r)
    \/ \E r \in RandomTexts : NormalizeAgain(r)

SpecNorm == NormInit /\ [][NormNext]_vars

\* the filters, the query and the view mode of the store, and the callbacks
\* registered for their events
ViewNext ==
    \/ \E r \in ViewRegistrations : RegisterCallback(r[1], r[2])
    \/ \E category \in CategoryInputs : AddCategoryFilter(category)
    \/ \E category \in CategoryInputs : RemoveCategoryFilter(category)
    \/ \E query \in QueryInputs : SetSearchQuery(query)
    \/ \E mode \in ModeInputs : SetViewMode(mode)
    \/ ToggleViewMode

SpecView == Init /\ [][ViewNext]_vars

\* the filters and the query of the store set and cleared, with callbacks
\* registered for their events
ClearNext ==
    \/ \E r \in ViewRegistrations : RegisterCallback(r[1], r[2])
    \/ \E category \in CategoryInputs : AddCategoryFilter(category)
    \/ \E subject \in SubjectInputs : AddSubjectFilter(subject)
    \/ \E query \in QueryInputs : SetSearchQuery(query)
    \/ ClearFilters
    \/ \E subject \in SubjectInputs : RemoveSubjectFilter(subject)

SpecClear == Init /\ [][ClearNext]_vars

\* callbacks put on the events of the filters and taken off them, by the
\* view and by the callbacks themselves, and a mutator that dispatches
ListenerNext ==
    \/ \E r \in ListenerRegistrations : RegisterCallback(r[1], r[2])
    \/ \E event \in { "filter-changed", "state-changed", "unknown" },
          cb \in { "capture", "removeSelf" } : RemoveEventListener(event, cb)
    \/ SetSearchQuery(Str(<<"q">>))

SpecListeners == Init /\ [][ListenerNext]_vars

\* the mutators of the store, with callbacks that look at the store when
\* they are called
ObserveNext ==
    \/ \E r \in ObserveRegistrations : RegisterCallback(r[1], r[2])
    \/ \E vals \in SeqsUpTo(InputStudies, MaxLen) : SetStudiesList(vals)
    \/ SetStudiesInvalid("null")
    \/ SetSearchQuery(Str(<<"q">>))
    \/ AddCategoryFilter(Str(<<"A">>))
    \/ RemoveCategoryFilter(Str(<<"A">>))
    \/ \E mode \in { "card", "list" } : SetViewMode(mode)
    \/ ClearFilters

SpecObserve == Init /\ [][ObserveNext]_vars

\* the search engine and the code that calls it
SearchNext ==
    \/ \E study \in InputStudies : SetStudiesList(<< study >>)
    \/ \E studies \in BuildInputs : InitializeSearchEngine(studies)
    \/ \E k \in 1 .. MaxBuilds, constructed \in BOOLEAN :
           ImportFulfilled(k, constructed)
    \/ \E k \in 1 .. MaxBuilds : ImportRejected(k)
    \/ \E query \in SearchQueries, studies \in SeqsUpTo(SearchStudies, MaxList) :
           Search(query, studies)
    \/ SearchResumes
    \/ GetFilteredResults

SpecSearch == Init /\ [][SearchNext]_vars

\* the filters of the store and the code that applies them to studies
FilterNext ==
    \/ \E vals \in SeqsUpTo(CatalogStudies, MaxLen) : SetStudiesList(vals)
    \/ \E category \in Buttons : AddCategoryFilter(category)
    \/ \E subject \in SubjectInputs : AddSubjectFilter(subject)
    \/ ClearFilters
    \/ \E studies \in SeqsUpTo(CatalogStudies, MaxList) : FilterStudies(studies)
    \/ UpdateResults

SpecFilter == Init /\ [][FilterNext]_vars

\* the studies, a filter and a query of the store, the index built over the
\* studies of the store, and the handlers that update the results
PipelineNext ==
    \/ \E vals \in SeqsUpTo(CatalogStudies, MaxLen) : SetStudiesList(vals)
    \/ \E category \in Buttons : AddCategoryFilter(category)
    \/ SetSearchQuery(Str(<<"T">>))
    \/ ClearFilters
    \/ InitializeSearchEngineSync(Arr(Stored))
    \/ \E k \in 1 .. MaxBuilds, fulfilled \in BOOLEAN :
           ImportSettled(k, fulfilled)
    \/ UpdateResults

SpecPipeline == Init /\ [][PipelineNext]_vars

\* calls of the loaders, and the responses their fetches get
LoadNext ==
    \/ \E loader \in Loaders : LoadStudiesData(loader)
    \/ \E response \in Responses, header \in LoadHeaders,
          rows \in SeqsUpTo(LoadRows, MaxRows) :
           FetchSettles(response, header, rows)

SpecLoad == Init /\ [][LoadNext]_vars

\* the store and the code that calls it
Next ==
    \/ \E vals \in SeqsUpTo(InputStudies, MaxLen) : SetStudiesList(vals)
    \/ SetStudiesHeld
    \/ \E kind \in NonArrays : SetStudiesInvalid(kind)
    \/ GetStudies
    \/ \E r \in Registrations : AddEventListener(r[1], r[2])
    \/ \E i \in 1 .. MaxLen : MutateTitle(i)
    \/ \E i \in 1 .. MaxLen : MutateCategories(i)
    \/ MutatePop
    \/ DisplayStudies

Spec == Init /\ [][Next]_vars

\* the bootstrap coordinator and its callers
BootNext ==
    \/ \E c \in Runs : BootstrapCall(c)
    \/ \E c \in Runs, o \in LoaderOutcomes, r \in RandomTexts :
           LoaderSettles(c, o, r)
    \/ \E c \in Runs : DelayElapses(c)

SpecBoot == Init /\ [][BootNext]_vars

\* a loader call that was started settles, a timer that was set fires
LiveBoot ==
    /\ SpecBoot
    /\ \A c \in Runs :
          /\ WF_vars(\E o \in LoaderOutcomes, r \in RandomTexts :
                         LoaderSettles(c, o, r))
          /\ WF_vars(DelayElapses(c))

\* the application entry point, the bootstrap it awaits, and other code
\* that writes the store meanwhile
AppNext ==
    \/ InitAppStart
    \/ \E o \in LoaderOutcomes, r \in RandomTexts :
           LoaderSettles("initApp", o, r)
    \/ DelayElapses("initApp")
    \/ InitAppResume
    \/ \E vals \in SeqsUpTo(InputStudies, MaxLen) : WriterSetStudies(vals)

SpecApp == Init /\ [][AppNext]_vars

\* the canonical collection, by value: what getStudies() reports
Canonical == Deref(St, _studies)

\* ------------------------------------------------------------------ claims
\* C1: setStudies called with a value that is not an array leaves the
\* canonical collection as it was: getStudies() reports the same studies
\* before and after the call.
C1_InvalidSetStudiesKeepsCollection ==
    [][(lastOp'.op = "setStudies" /\ lastOp'.kind # "array")
          => Canonical' = Canonical]_vars

\* C2: a setStudies that fails on a payload that is not an array does not
\* throw to its caller, leaves getError() non-null, dispatches 'error' exactly
\* once and dispatches neither 'studies-loaded' nor 'state-changed'.
C2_FailedSetStudiesReports ==
    (lastOp.op = "setStudies" /\ lastOp.kind # "array")
        => /\ ~thrown
           /\ _error # NoError
           /\ log = << "error" >>

\* a failed setStudies has returned although a listener of 'error' throws
C2_Witness ==
    /\ lastOp.op = "setStudies"
    /\ lastOp.kind # "array"
    /\ _listeners["error"] = << "throw" >>

\* after a successful setStudies(list): the canonical collection equals list
\* by value, shares neither the array nor a study object with list,
\* lastError is null, and the events were 'studies-loaded' then
\* 'state-changed', once each
C3_AfterSetStudies ==
    (lastOp.op = "setStudies" /\ lastOp.kind = "array")
        => /\ Canonical = lastOp.vals
           /\ _error = NoError
           /\ ~thrown
           /\ log = << "studies-loaded", "state-changed" >>
           /\ held.from = "arg"
                => /\ held.ref # _studies
                   /\ Range(arrs[held.ref]) \cap Range(arrs[_studies]) = {}

\* a mutation the caller applies to the list it passed, or to a study of it
C3_CallerMutatesList ==
    (lastOp'.op \in { "mutate", "displayStudies" } /\ lastOp'.kind = "arg")
        => Canonical' = Canonical

\* C3: a successful setStudies(list) replaces the canonical collection with a
\* deep copy of list (what the caller does to list or to its studies later
\* does not change what getStudies() reports), clears lastError, and
\* dispatches 'studies-loaded' and then 'state-changed', once each.
C3_SuccessfulSetStudies == [] C3_AfterSetStudies /\ [][C3_CallerMutatesList]_vars

\* the caller has changed the list it passed to a successful setStudies, and
\* the list no longer equals the canonical collection
C3_Witness ==
    /\ lastOp.op = "mutate"
    /\ lastOp.kind = "arg"
    /\ _initialized
    /\ Deref(St, held.ref) # Canonical

\* C4: a getter returns a defensive copy: no mutation the caller applies to
\* what getStudies() returned, a field or the categories of a returned study
\* included, changes what a later getStudies() returns.
C4_GettersReturnDefensiveCopies ==
    [][(lastOp'.op = "mutate" /\ lastOp'.kind = "get")
          => Canonical' = Canonical]_vars

\* C5: the canonical collection changes only as the effect of a setStudies
\* call: not by a listener that was given an event payload, and not by a
\* consumer working on studies it got from the store.
C5_OnlySetStudiesChangesCollection ==
    [][Canonical' # Canonical => lastOp'.op = "setStudies"]_vars

\* every attempt of run c so far failed
AllAttemptsFailed(c) == run[c].fails = run[c].calls

C6_ExhaustedRun(c) ==
    (run[c].pc \in Terminal /\ AllAttemptsFailed(c))
        => /\ run[c].pc = "FailedExhausted"
           /\ run[c].calls = MAX_RETRIES
           /\ run[c].delays = MAX_RETRIES - 1
           /\ run[c].result = Arr(<<>>)

\* C6: if the Loader fails on every attempt, one bootstrap() call invokes the
\* Loader exactly MAX_RETRIES times, waits RETRY_DELAY exactly MAX_RETRIES-1
\* times (a wait only between two attempts, none after the last) and resolves
\* to the empty list.
C6_RetryBound ==
    \A c \in Runs :
        /\ C6_ExhaustedRun(c)
        /\ run[c].pc = "Retrying" => run[c].delays = run[c].calls
        /\ run[c].pc \in Terminal \cup { "Loading" }
              => run[c].delays = run[c].calls - 1

\* a run is over after the Loader failed MAX_RETRIES times
C6_Witness ==
    \E c \in Runs :
        /\ run[c].pc = "FailedExhausted"
        /\ run[c].fails = MAX_RETRIES

C7_NeverRejects(c) ==
    /\ run[c].pc # "Rejected"
    /\ run[c].pc \in Terminal => run[c].result.t = "array"

\* C7: bootstrap() is fail-open: whatever the Loader's calls do (throw, return
\* an empty list, something that is no list, a non-empty list), the call ends
\* by resolving to a list and never rejects, provided each Loader call ends.
C7_FailOpen ==
    /\ [] (\A c \in Runs : C7_NeverRejects(c))
    /\ \A c \in Runs : (run[c].pc # "Idle") ~> (run[c].pc \in Terminal)

\* a run has resolved although its last Loader call threw
C7_Witness ==
    \E c \in Runs :
        /\ run[c].pc \in Terminal
        /\ run[c].last = Undefined
        /\ run[c].result = Arr(<<>>)

\* the steps of one run that the state machine of bootstrap() allows
BootTransitions ==
    { << "Idle", "Loading" >>, << "Loading", "Retrying" >>,
      << "Retrying", "Loading" >>, << "Loading", "Succeeded" >>,
      << "Loading", "FailedExhausted" >> }

C8_Succeeded(c) ==
    run[c].pc = "Succeeded"
        => /\ run[c].calls <= MAX_RETRIES
           /\ run[c].fails = run[c].calls - 1
           /\ run[c].delays = run[c].calls - 1
           /\ run[c].last.t = "array" /\ run[c].last.a # <<>>
           /\ \E r \in RandomTexts :
                  run[c].result = normalizeStudiesData(run[c].last, r)

C8_Step(c) ==
    /\ run'[c].pc # run[c].pc
          => << run[c].pc, run'[c].pc >> \in BootTransitions
    /\ run[c].pc \in Terminal => run'[c] = run[c]
    /\ run'[c].fails = run[c].fails + 1
          => /\ run'[c].calls = run[c].calls
             /\ run'[c].pc = IF run[c].calls < MAX_RETRIES THEN "Retrying"
                             ELSE "FailedExhausted"
    /\ run'[c].calls # run[c].calls
          => /\ run'[c].calls = run[c].calls + 1
             /\ run'[c].pc = "Loading"

\* C8: bootstrap() succeeds on the first attempt that delivers a non-empty
\* array: when that is attempt k, the Loader was called k times, nothing
\* follows, and the result is the normalization of that attempt's records; an
\* attempt delivering an empty array or no array counts as failed and leads
\* to Retrying; a run goes Idle -> Loading -> (Retrying -> Loading)* ->
\* Succeeded | FailedExhausted and stays where it ended.
C8_FirstSuccessWins ==
    /\ [] (\A c \in Runs : C8_Succeeded(c))
    /\ [][\A c \in Runs : C8_Step(c)]_vars

\* a run has succeeded on its second attempt, with studies
C8_Witness ==
    \E c \in Runs :
        /\ run[c].pc = "Succeeded"
        /\ run[c].calls = 2
        /\ run[c].result.a # <<>>

\* C9: at most one bootstrap run is in flight at any time: a caller that
\* calls bootstrap() while an earlier call has not resolved awaits that
\* call's result and starts no Loader call of its own.
C9_OneRunInFlight ==
    Cardinality({ c \in Runs : run[c].pc \in { "Loading", "Retrying" } }) <= 1

\* C10: a superseded asynchronous result is discarded: when the bootstrap
\* run that initApp awaits resolves after a newer setStudies call replaced
\* the collection, the run's studies are not written to the store.
C10_SupersededResultDiscarded ==
    [][(appPc = "awaiting" /\ appPc' = "done" /\ superseded)
          => Canonical' = Canonical]_vars

\* ------------------------------------------------------------------ claims: normalizer
\* the list a normalizer was given consists of records only, so that the
\* i-th study returned is the normalization of the i-th record
OnlyRecords == \A i \in DOMAIN norm.input.a : norm.input.a[i].t = "object"

\* a categories field that is missing, empty, or neither a list nor a string
NoCategories(c) ==
    \/ c.t \in { "undefined", "null" }
    \/ c = Str(<<>>)
    \/ c = Arr(<<>>)
    \/ c.t \notin { "array", "string" }

\* C11: every study a normalizer returns has a categories list with at least
\* one element, and a record whose categories field is missing, empty (the
\* empty string, the empty list) or neither a list nor a string gets exactly
\* ["Uncategorized"].
C11_CategoriesNeverEmpty ==
    norm.pc # "input"
        => /\ \A i \in DOMAIN norm.out.a :
                  /\ norm.out.a[i].categories.t = "array"
                  /\ Len(norm.out.a[i].categories.a) >= 1
           /\ OnlyRecords
                 => /\ Len(norm.out.a) = Len(norm.input.a)
                    /\ \A i \in DOMAIN norm.input.a :
                           NoCategories(norm.input.a[i].categories)
                               => norm.out.a[i].categories
                                      = Arr(<< Str(Uncategorized) >>)

\* a normalizer has returned for two records, one without a categories field
\* and one whose categories field is a number
C11_Witness ==
    /\ norm.pc = "once"
    /\ OnlyRecords
    /\ Len(norm.input.a) = 2
    /\ norm.input.a[1].categories = Undefined
    /\ norm.input.a[2].categories = Num(<<"5">>)

\* C12: normalization is idempotent: normalizing what a normalizer returned
\* gives the same list again, field for field for every study.
C12_NormalizeIdempotent ==
    norm.pc = "twice" => norm.again = norm.out

\* C13: in the categories list of every study a normalizer returns no
\* element is the empty string or carries leading or trailing white space,
\* and a record whose categories field is the string "A|B" gets ["A", "B"].
C13_CategoriesSplitAndTrimmed ==
    norm.pc # "input"
        => /\ \A i \in DOMAIN norm.out.a :
                  \A c \in Range(norm.out.a[i].categories.a) :
                      c.t = "string" /\ c.s # <<>> /\ trim(c.s) = c.s
           /\ OnlyRecords
                 => \A i \in DOMAIN norm.input.a :
                        norm.input.a[i].categories = Str(<<"A", "|", "B">>)
                            => norm.out.a[i].categories
                                   = Arr(<< Str(<<"A">>), Str(<<"B">>) >>)

\* C14: metadata.subjects of every study a normalizer returns is an array of
\* strings, also when the record's metadata carries subjects as null, as the
\* empty string, as a number or as one string.
C14_SubjectsAlwaysStrings ==
    norm.pc # "input"
        => \A i \in DOMAIN norm.out.a :
               /\ norm.out.a[i].metadata.subjects.t = "array"
               /\ \A x \in Range(norm.out.a[i].metadata.subjects.a) :
                      x.t = "string"

\* C15: a normalizer returns one study for every entry of its input that is
\* a non-null object, and none for an entry that is null, undefined, a
\* number, a string or a boolean.
C15_DropsWhatIsNoRecord ==
    norm.pc # "input"
        => Len(norm.out.a)
               = Len(SelectSeq(norm.input.a,
                               LAMBDA e : e.t \in { "object", "array" }))

\* ------------------------------------------------------------------ claims: events, filters
\* the callbacks the last operation invoked for event, in order
InvokedFor(event) ==
    LET calls == SelectSeq(invoked, LAMBDA x : x.event = event)
    IN  [i \in 1 .. Len(calls) |-> calls[i].cb]

\* C16: the dispatch of an event invokes the callbacks registered for it in
\* the order of their registration, each of them although an earlier one
\* threw, and the mutator that dispatched does not throw (for an operation
\* during which no callback calls the store).
C16_DispatchInOrderDespiteThrow ==
    ~nested
        => /\ ~thrown
           /\ \A e \in Events :
                  InvokedFor(e) = IF e \in Range(log) THEN _listeners[e]
                                  ELSE <<>>

\* a mutator has dispatched 'filter-changed', for which a throwing callback
\* and then another callback are registered
C16_Witness ==
    /\ lastOp.op \in { "addCategoryFilter", "setSearchQuery" }
    /\ _listeners["filter-changed"] = << "throw", "capture" >>
    /\ log = << "filter-changed", "state-changed" >>

\* C17: a store mutation and its dispatch are atomic: no dispatch of a store
\* method begins while the dispatch of another one is running, a callback
\* that calls a mutator included.
C17_DispatchAtomic == ~nested

\* the fields of the store
AppStateFields ==
    << Canonical, _initialized, _loading, _error, _categoryFilters,
       _subjectFilters, _searchQuery, _viewMode, _listeners >>

\* a call that changed nothing and dispatched nothing
C18_NoOp ==
    /\ AppStateFields' = AppStateFields
    /\ log' = <<>>
    /\ invoked' = <<>>

\* a call that dispatched 'filter-changed' with the category and the action,
\* then 'state-changed', once each
C18_Dispatched(action) ==
    /\ log' = << "filter-changed", "state-changed" >>
    /\ \A i \in DOMAIN invoked' :
           invoked'[i].event = "filter-changed"
               => invoked'[i].data
                      = Payload("category", action, lastOp'.vals)

C18_Step ==
    LET category == lastOp'.vals
        active == category.t = "string"
                      /\ category.s \in Range(_categoryFilters)
    IN  /\ (lastOp'.op = "addCategoryFilter" /\ active) => C18_NoOp
        /\ (lastOp'.op = "removeCategoryFilter" /\ ~active) => C18_NoOp
        /\ (lastOp'.op = "addCategoryFilter" /\ ~active /\ ~nested'
               /\ Truthy(category) /\ category.t = "string")
              => /\ _categoryFilters' = Append(_categoryFilters, category.s)
                 /\ C18_Dispatched("add")
        /\ (lastOp'.op = "removeCategoryFilter" /\ active /\ ~nested')
              => /\ category.s \notin Range(_categoryFilters')
                 /\ Len(_categoryFilters') = Len(_categoryFilters) - 1
                 /\ C18_Dispatched("remove")

\* C18: addCategoryFilter and removeCategoryFilter are idempotent set
\* operations: adding a category that is active, or removing one that is
\* not, changes no state and dispatches no event; otherwise (for a category,
\* a non-empty string) the call dispatches 'filter-changed' with
\* {type: 'category', action, value} and then 'state-changed', once each, and
\* no category is active twice.
C18_CategoryFiltersIdempotent ==
    /\ [] (Cardinality(Range(_categoryFilters)) = Len(_categoryFilters))
    /\ [][C18_Step]_vars

\* a category that is active was added again, with a callback registered for
\* 'filter-changed'
C18_Witness ==
    /\ lastOp.op = "addCategoryFilter"
    /\ lastOp.vals = Str(<<"A">>)
    /\ log = <<>>
    /\ <<"A">> \in Range(_categoryFilters)
    /\ _listeners["filter-changed"] # <<>>

C19_Step ==
    lastOp'.op = "setSearchQuery"
        => /\ _searchQuery' = Str(trim(IF lastOp'.vals.t = "string"
                                        THEN lastOp'.vals.s ELSE <<>>))
           /\ ~nested' => log' = << "filter-changed", "state-changed" >>

\* C19: setSearchQuery(q) stores the trimmed string ("" when q is no string)
\* and dispatches 'filter-changed' and then 'state-changed'; in every state
\* getSearchQuery() is a string without leading or trailing white space.
C19_SearchQueryTrimmed ==
    /\ [] (_searchQuery.t = "string" /\ trim(_searchQuery.s) = _searchQuery.s)
    /\ [][C19_Step]_vars

\* a query with white space around it was set, and the store holds it trimmed
C19_Witness ==
    /\ lastOp.op = "setSearchQuery"
    /\ lastOp.vals = Str(<<" ", "q", " ">>)
    /\ _searchQuery = Str(<<"q">>)

C20_Step ==
    lastOp'.op = "setViewMode"
        => LET mode == IF lastOp'.kind \in { "card", "list" } THEN lastOp'.kind
                       ELSE "card"
           IN  /\ _viewMode' = mode
               /\ mode = _viewMode => C18_NoOp
               /\ (mode # _viewMode /\ ~nested')
                     => log' = << "view-mode-changed", "state-changed" >>

\* C20: in every state the view mode is 'card' or 'list': setViewMode takes
\* any other value for 'card', changes nothing and dispatches nothing when
\* that is the current mode, and otherwise dispatches 'view-mode-changed' and
\* then 'state-changed'.
C20_ViewModeCardOrList ==
    /\ [] (_viewMode \in { "card", "list" })
    /\ [][C20_Step]_vars

\* setViewMode was called with a mode that is neither, in list mode
C20_Witness ==
    /\ lastOp.op = "setViewMode"
    /\ lastOp.kind = "grid"
    /\ _viewMode = "card"
    /\ log = << "view-mode-changed", "state-changed" >>

\* ------------------------------------------------------------------ claims: search, filters
C21_Step ==
    lastOp'.op = "clearFilters"
        => /\ _categoryFilters' = <<>>
           /\ _subjectFilters' = <<>>
           /\ _searchQuery' = Str(<<>>)
           /\ \A i \in DOMAIN invoked' :
                  /\ invoked'[i].seen.categoryFilters = <<>>
                  /\ invoked'[i].seen.subjectFilters = <<>>
                  /\ invoked'[i].seen.searchQuery = Str(<<>>)
                  /\ invoked'[i].event = "filter-changed"
                         => invoked'[i].data
                                = Payload("clear-all", "clear", Undefined)
           /\ Canonical' = Canonical
           /\ _listeners' = _listeners
           /\ ~nested' => /\ log' = << "filter-changed", "state-changed" >>
                          /\ _viewMode' = _viewMode

Ids(studies) == [i \in DOMAIN studies |-> studies[i].id]

\* C22: after a successful setStudies, with no filter active and the query
\* empty, getFilteredResults() returns a list with the ids of the canonical
\* collection, as many as it holds.
C22_ShowAll ==
    (/\ lastOp.op = "getFilteredResults"
     /\ _initialized
     /\ _categoryFilters = <<>>
     /\ _subjectFilters = <<>>
     /\ _searchQuery = Str(<<>>))
        => /\ Len(lastOp.vals.output) = Len(Canonical)
           /\ Range(Ids(lastOp.vals.output)) = Range(Ids(Canonical))

\* C23: search(query, studies) with a query that is empty or white space
\* returns the list it was given, the empty list too, whatever the store
\* holds.
C23_EmptyQueryReturnsInput ==
    (call.pc = "returned" /\ EmptyQuery(call.query))
        => call.result = call.studies

\* C24: while the index is not ready (the build never begun, in flight, or
\* failed), search with a query that is not empty does not wait for the
\* build and returns the studies of its list that basicSearch gives: those
\* with the query, whatever its case, in the title, a category, the
\* description, a subject or the organization, in the order of the list.
C24_FallbackWithoutWaiting ==
    (call.pc # "idle" /\ ~EmptyQuery(call.query) /\ call.build # "ready")
        => IF call.pc = "awaiting"
           THEN promises[call.promise].state # "pending"
           ELSE call.result = basicSearch(call.studies, call.query)

\* C25: in every state of the build, search with a query that is a substring
\* of the title of a study of its list returns a result that holds the
\* study.
C25_SearchAvailable ==
    (call.pc = "returned" /\ ~EmptyQuery(call.query))
        => \A i \in DOMAIN call.studies :
               includes(call.studies[i].title.s, call.query.s)
                   => call.studies[i] \in Range(call.result)

\* the builds in flight
InFlight == { k \in DOMAIN promises : promises[k].state = "pending" }

C26_Step == InFlight # {} => Len(promises') = Len(promises)

Failed == { k \in DOMAIN promises : promises[k].state = "rejected" }

\* C27: after a build failed (the import was rejected, or the constructor of
\* the index threw) no later call begins another build, and every later
\* search with a query that is not empty is answered by the fallback.
C27_FailedBuildIsFinal ==
    /\ [] ((call.pc = "returned" /\ call.build = "failed"
               /\ ~EmptyQuery(call.query))
              => call.via = "simple")
    /\ [][Failed # {} => Len(promises') = Len(promises)]_vars

\* the list a filter was given and the list it returned, for the filters
\* applied to a list of studies
FilterCalled == lastOp.op \in { "filterStudies", "updateResults" }

\* C28: with category filters active, a study passes the category filter
\* exactly when one of its categories is an active filter or matches the
\* rule of an active button (the older name of the domain, or a keyword of
\* it): 'AI Use and Perceptions' keeps a study whose only category is
\* 'Current AI Use and Perceptions in PK 12 & HigherEd'.
C28_CategoryFilterExactOrAlias ==
    (FilterCalled /\ _categoryFilters # <<>>)
        => lastOp.vals.output
               = SelectSeq(lastOp.vals.input,
                           LAMBDA study :
                               HasSelectedCategory(_categoryFilters, study))

\* C29: with no category filter active, the category filter returns every
\* study of the list it is given, in the same order.
C29_NoCategoryFilterKeepsAll ==
    (FilterCalled /\ _categoryFilters = <<>>)
        => lastOp.vals.output = lastOp.vals.input

\* filterStudies was given two different studies with no category filter
\* active
C29_Witness ==
    /\ lastOp.op = "filterStudies"
    /\ _categoryFilters = <<>>
    /\ Len(lastOp.vals.input) = 2
    /\ lastOp.vals.input[1] # lastOp.vals.input[2]
    /\ lastOp.vals.output = lastOp.vals.input

\* C30: with a subject filter active, every study of the result has one of
\* the active subjects among its metadata.subjects; a study without subjects
\* is not in the result.
C30_SubjectFilterApplied ==
    (FilterCalled /\ _subjectFilters # <<>>)
        => \A i \in DOMAIN lastOp.vals.output :
               \E j \in DOMAIN lastOp.vals.output[i].metadata.subjects.a :
                   lastOp.vals.output[i].metadata.subjects.a[j].s
                       \in Range(_subjectFilters)

\* ------------------------------------------------------------------ claims: the store observed
\* C35: the getters of the store tell an error from no data loaded yet: after
\* a startup in which bootstrapApplication() used up its retries, getError()
\* is not null.
C35_FailedStartupIsError == appPc = "failed" => _error # NoError

C37_Step ==
    (lastOp'.op = "setSearchQuery" /\ ~nested')
        => /\ InvokedFor("filter-changed")' = _listeners["filter-changed"]
           /\ InvokedFor("state-changed")' = _listeners["state-changed"]

\* C37: a dispatch invokes every callback that is registered for the event
\* when the dispatch begins, once for each registration, also when a callback
\* takes itself off the event while the dispatch is running.
C37_EachCallbackOnce == [][C37_Step]_vars

\* C38: in every state the category filters and the subject filters hold no
\* element twice and no empty string; addCategoryFilter and addSubjectFilter
\* given an empty string or a value that is no string change nothing and
\* dispatch nothing.
C38_Step ==
    (/\ lastOp'.op \in { "addCategoryFilter", "addSubjectFilter" }
     /\ ~Truthy(lastOp'.vals) \/ lastOp'.vals.t # "string")
        => C18_NoOp

C38_FiltersAreSets ==
    /\ [] (/\ Cardinality(Range(_categoryFilters)) = Len(_categoryFilters)
           /\ Cardinality(Range(_subjectFilters)) = Len(_subjectFilters)
           /\ <<>> \notin Range(_categoryFilters) \cup Range(_subjectFilters))
    /\ [][C38_Step]_vars

\* addSubjectFilter was given an empty string while a subject filter is
\* active
C38_Witness ==
    /\ lastOp.op = "addSubjectFilter"
    /\ lastOp.vals = Str(<<>>)
    /\ _subjectFilters = << <<"math">> >>
    /\ log = <<>>

\* the mutators of the store that dispatch
Mutators ==
    { "setStudies", "setSearchQuery", "addCategoryFilter",
      "removeCategoryFilter", "setViewMode", "clearFilters" }

C39_Step ==
    (lastOp'.op \in Mutators /\ ~nested')
        => \A i \in DOMAIN invoked' :
               /\ invoked'[i].seen = Getters(St)'
               /\ invoked'[i].event = "studies-loaded"
                      => invoked'[i].seen.error = NoError

\* C39: a callback finds the store as the mutator leaves it: during the
\* dispatch of an event by setStudies, setSearchQuery, addCategoryFilter,
\* removeCategoryFilter, setViewMode or clearFilters the getters return the
\* new values, and for 'studies-loaded' getError() is null.
C39_ListenersSeeNewState == [][C39_Step]_vars

\* setStudies stored a study, and a callback for 'studies-loaded' found the
\* study and no error in the store
C39_Witness ==
    /\ lastOp.op = "setStudies"
    /\ lastOp.kind = "array"
    /\ invoked # <<>>
    /\ invoked[1].event = "studies-loaded"
    /\ invoked[1].seen.error = NoError
    /\ Len(invoked[1].seen.studies) > 0

C40_Step ==
    lastOp'.op = "removeEventListener"
        => LET event == lastOp'.kind
               cb == lastOp'.vals
           IN  /\ log' = <<>>
               /\ << Canonical, _categoryFilters, _subjectFilters,
                     _searchQuery, _viewMode >>'
                      = << Canonical, _categoryFilters, _subjectFilters,
                           _searchQuery, _viewMode >>
               /\ IF event \notin DOMAIN _listeners
                  THEN _listeners' = _listeners
                  ELSE /\ \A e \in DOMAIN _listeners \ { event } :
                              _listeners'[e] = _listeners[e]
                       /\ SelectSeq(_listeners'[event], LAMBDA x : x # cb)
                              = SelectSeq(_listeners[event], LAMBDA x : x # cb)
                       /\ Len(_listeners'[event])
                              = IF cb \in Range(_listeners[event])
                                THEN Len(_listeners[event]) - 1
                                ELSE Len(_listeners[event])

C31_SearchThenFilter ==
    lastOp.op = "updateResults"
        => \A i \in DOMAIN lastOp.vals.output :
               /\ _categoryFilters # <<>>
                      => HasSelectedCategory(_categoryFilters,
                                             lastOp.vals.output[i])
               /\ ~EmptyQuery(_searchQuery)
                      => basicSearch(<< lastOp.vals.output[i] >>,
                                     _searchQuery) # <<>>

\* C36: every study search(query, studies) returns for a query that is not
\* empty is a study of the list it was given, also when the index is ready
\* and was built over another list.
C36_ResultsFromInput ==
    (call.pc = "returned" /\ ~EmptyQuery(call.query))
        => Range(call.result) \subseteq Range(call.studies)

\* ------------------------------------------------------------------ claims: the loader
\* C32: a call of the loader fetches once, and it is rejected when the
\* response is not successful and when the text fetched has fewer than two
\* lines.
C32_LoaderReportsFailure ==
    load.pc = "settled"
        => /\ load.fetches = 1
           /\ (load.response # "ok" \/ Len(split(load.text, "\n")) < 2)
                  => load.outcome = "rejected"

\* the rows the loader parsed, normalized
LoadedStudies == normalizeStudies(RowRecords(load.items)).a

\* C33: a row loaded and normalized has the id of its id column as a string,
\* the category of its categories column as a list of one, and the value of
\* subjects=... in its metadata column, cut at the commas, as
\* metadata.subjects.
C33_MetadataPairsParsed ==
    (load.pc = "settled" /\ load.response = "ok")
        => \A r \in DOMAIN load.rows :
               /\ r \in DOMAIN LoadedStudies
               /\ \A i \in DOMAIN load.header :
                      LET content == load.rows[r][i].content
                          study == LoadedStudies[r]
                      IN  /\ (/\ load.header[i] = <<"metadata">>
                              /\ Len(content) > 2
                              /\ SubSeq(content, 1, 2) = <<"subjects", "=">>)
                                 => study.metadata.subjects
                                        = Arr(Strs(split(SubSeq(content, 3,
                                                                Len(content)),
                                                         ",")))
                          /\ (load.header[i] = <<"id">> /\ content # <<>>)
                                 => study.id = Str(content)
                          /\ (/\ load.header[i] = <<"categories">>
                              /\ content # <<>>)
                                 => study.categories = Arr(<< Str(content) >>)

\* C34: a data row gives one field for each header, also when a field
\* between quotes holds a comma, and each field is the value of its header.
C34_QuotedFieldsKept ==
    (load.pc = "settled" /\ load.response = "ok")
        => \A r \in DOMAIN load.rows :
               /\ r \in DOMAIN load.items
               /\ \A i \in DOMAIN load.header :
                      (/\ load.header[i] # <<>>
                       /\ \/ load.loader # "csv-parser"
                          \/ load.header[i] = <<"id">>)
                          => /\ load.header[i] \in DOMAIN load.items[r]
                             /\ load.items[r][load.header[i]]
                                    = Str(load.rows[r][i].content)

====
